---- MODULE Spec2Model ----
(***************************************************************************)
(* A model of golem (docker-archive/golem): the custom image matrix        *)
(* expansion, the log multi-writer and tapper, the in-container suite      *)
(* runner, the image reconciler, the base image build with its cache and   *)
(* fingerprint, and the host runner.  Each part has its own variables and  *)
(* its own specification; a specification leaves the other parts idle.     *)
(***************************************************************************)
EXTENDS Integers, Sequences, FiniteSets, TLC

VARIABLES
    \* ---- expandCustomImageMatrix (runner/matrix.go)
    images,        \* the argument: the flat list of custom images
    imageMatrix,   \* the local imageMatrix
    mxNext,        \* index (1-based) of the next element of images the loop takes
    mxPc,          \* "loop" while the for loop runs, "done" after return
    \* ---- logMultiWriter and logTapper (runner/logrouter.go), one stream
    sinkBuf,       \* the bytes the primary sink (lmw.sink) has received
    writers,       \* lmw.writers: the set of secondaries
    writersLock,   \* the task holding lmw.writersLock, "" when free
    taps,          \* lr.taps: the taps registered with the tapper
    tapperLock,    \* the tap whose Close holds lr.l, "" when free
    wTasks,        \* the tasks that call Write
    wpc,           \* per task: its position in Write
    wcur,          \* per task: the number of the Write call it is in, 0 if none
    wtodo,         \* per task: the secondaries its range loop has yet to visit
    wsec,          \* per task: the tap whose pipe it is writing to, "" if none
    calls,         \* per Write call: the sink's (n, err), what Write returned, and
                   \* the secondaries that returned an error or a short count
    plainGot,      \* per plain secondary: the bytes it has received
    tapState,      \* per tap: "none", "adding", "open", "closing", "closed"
    pipeData,      \* per tap: the bytes of the pending pipe write not yet read
    pipeWerr,      \* per tap: the write end of its pipe is closed
    rdGot,         \* per tap: the bytes its reader has read
    rdState,       \* per tap: its reader is "reading", "stopped" or at "eof"
    tapBase,       \* per tap: the calls made, and whether all had returned, when added
    tapEnd,        \* per tap: the same when its Close removed it
    \* ---- runnerMain and SuiteRunner (golem.go, runner/suite.go)
    srConf,        \* DockerInDocker, CleanDockerGraph, ComposeFile set, script counts
    srPc,          \* the position of runnerMain
    srIdx,         \* the index (1-based) of the next setup or test script
    srLog,         \* the steps performed so far, in order
    daemonCloser,  \* sr.daemonCloser: "nil" or "kill"
    daemonUp,      \* the nested daemon process is running
    sdTry,         \* StartDaemon: the loop variable i of the version poll
    sdWaited,      \* StartDaemon: seconds slept so far
    runErr,        \* runErr of runnerMain: RunTests returned an error
    srCalls,       \* how often TearDown, compose stop and the daemon closer ran
    exitCode,      \* the exit code of the process, -1 while it runs
    \* ---- syncImages against the nested engine (runner/suite.go)
    syManifest,    \* m: images.json, image id -> set of expected tags
    syClean,       \* the clean argument
    engImages,     \* the engine: the ids of the images it holds
    engTags,       \* the engine: tag -> the id it points to, or "none"
    eng0,          \* the engine as it was when syncImages was called
    syPc,          \* the position of syncImages
    sySnap,        \* images: the result of ImageList, id -> RepoTags
    syTodo,        \* the listed images the first loop has not visited yet
    syNeeded,      \* neededImages
    syCur,         \* the image the current loop body works on
    syAdds,        \* the tags the current loop body still has to apply
    syRems,        \* removedTags the current loop body still has to visit
    syErr,         \* syncImages returned an error
    \* ---- the host runner's Run (runner/runner.go)
    hrConf,        \* the suites: n instances, the first k in suite 1; the dind flags
    hrPc,          \* the position of Run
    hrIdx,         \* the instance the loops are at, in declaration order
    failedTests,   \* failedTests of Run
    runTests,      \* runTests of Run
    hrRan,         \* the instances whose container ran, with the exit codes, in order
    hrResult,      \* what Run returned: "pending", "nil", "testFailure", "engineError"
    hrMsg,         \* the numbers of the test failure message
    hostContainers,\* the host engine: the names of the containers that exist
    hostVolumes,   \* the host engine: the names of the volumes that exist
    \* ---- BuildBaseImage: the fingerprint (runner/runner.go)
    bbConf,        \* conf with every image resolved: base id, extras, custom images
    hashVer,       \* the hashVersion the binary was built with
    fpPrev,        \* conf and hashVer before the last edit of the configuration
    fpKind,        \* the last edit: "none", "reorder", or what was changed
    \* ---- BuildBaseImage: the image cache and the Builder (runner/runner.go)
    cacheFiles,    \* the files of the image cache: digest -> content
    builtImages,   \* the engine: the ids of built images that resolve
    bbPc,          \* the position of BuildBaseImage
    bbRound,       \* which of the two builds in succession runs
    bbNew,         \* imageID: the id the Builder produced
    bbTrace,       \* per build: what it returned, Builder runs, SaveImage calls
    bbResolves,    \* the id of the first build resolved when the second began
    \* ---- LogRouter and its coordinator (runner/logrouter.go)
    logStreams,    \* lr.logStreams: name -> the tapper of the stream, 0 if none
    forwards,      \* lr.forwards: the forwarders, in the order they were appended
    rtClosed,      \* Shutdown has run: forwardChan and streamChan nil, closeChan closed
    tappers,       \* the number of tappers (and sinks) created so far
    sinks,         \* per name: how many sinks were made for it, and whether it is closed
    coPc,          \* the coordinator: "eval", "select", "handle", "closing", "exited"
    coArg,         \* the coordinator: the event it received
    coRefs,        \* the coordinator: the channels it selects on are not nil
    kPc,           \* per client task: "idle", "defer", "sending", "done"
    kOp,           \* per client task: the call it makes
    kRef,          \* per client task: the channel of its deferred send is not nil
    kRet,          \* per client task: what its call returns
    kMark,         \* per client task: the writes made when its call began / returned
    rtTaps,        \* the taps created by forwardStream and AddCapturer: owner, stream,
                   \* the writes handed to it, and whether it is still open
    rtWrites,      \* the writes made to the streams, in order
    started,       \* per forwarder and stream name: the StartForward calls
    stopped,       \* per forwarder and stream name: the StopForward calls
    \* ---- multiResolver (runner/configuration.go)
    crStack,       \* the custom images of the resolvers, in the order of the stack
    crIdx,         \* the position of CustomImages in crStack
    crImages,      \* the local customImages of CustomImages
    crTargets,     \* the local targets of CustomImages
    crOut,         \* what CustomImages returned
    crSuite,       \* the suite's dind setting and the number of its images
    crDind,        \* what Dind returned
    crPc,          \* "merge", "dind", "done"
    \* ---- parseSuites and runnerConfiguration (runner/configuration.go)
    nmDeclared,    \* the suites as declared: name and number of matrix rows
    nmIdx,         \* the position of parseSuites in nmDeclared
    nmConfigs,     \* the map configs of parseSuites: name -> matrix rows
    nmTodo,        \* the names runnerConfiguration has still to visit
    nmInstances,   \* the names of the instances, in the order they were made
    nmPc,          \* "parse", "instances", "done"
    \* ---- versionutil (Version.LessThan)
    vnA,           \* the version a
    vnB,           \* the version b
    vnLess,        \* the results of a.LessThan(b) and b.LessThan(a)
    vnPc,          \* "compare", "done"
    \* ---- ensureImage and the start of BuildBaseImage (runner/runner.go)
    eiEngine,      \* the references the engine has an image for
    eiTodo,        \* the references BuildBaseImage ensures: the base first
    eiIdx,         \* the reference being ensured
    eiRet,         \* what ensureImage returned: the id and whether an error
    eiIds,         \* the ids BuildBaseImage has collected
    eiPc           \* "inspect", "pull", "reinspect", "returned", "hash", "failed"

mxVars == <<images, imageMatrix, mxNext, mxPc>>

lmwVars == <<sinkBuf, writers, writersLock, wTasks, wpc, wcur, wtodo, wsec, calls, plainGot>>

tapVars == <<taps, tapperLock, tapState, pipeData, pipeWerr, rdGot, rdState, tapBase, tapEnd>>

logVars == <<lmwVars, tapVars>>

srVars == <<srConf, srPc, srIdx, srLog, daemonCloser, daemonUp, sdTry, sdWaited,
           runErr, srCalls, exitCode>>

syVars == <<syManifest, syClean, engImages, engTags, eng0, syPc, sySnap, syTodo,
           syNeeded, syCur, syAdds, syRems, syErr>>

hrVars == <<hrConf, hrPc, hrIdx, failedTests, runTests, hrRan, hrResult, hrMsg,
           hostContainers, hostVolumes>>

fpVars == <<bbConf, hashVer, fpPrev, fpKind>>

bcVars == <<cacheFiles, builtImages, bbPc, bbRound, bbNew, bbTrace, bbResolves>>

rtVars == <<logStreams, forwards, rtClosed, tappers, sinks, coPc, coArg, coRefs,
           kPc, kOp, kRef, kRet, kMark, rtTaps, rtWrites, started, stopped>>

crVars == <<crStack, crIdx, crImages, crTargets, crOut, crSuite, crDind, crPc>>

nmVars == <<nmDeclared, nmIdx, nmConfigs, nmTodo, nmInstances, nmPc>>

eiVars == <<eiEngine, eiTodo, eiIdx, eiRet, eiIds, eiPc>>

cfVars == <<crVars, nmVars, eiVars>>

vnVars == <<vnA, vnB, vnLess, vnPc>>

vars == <<mxVars, logVars, srVars, syVars, hrVars, fpVars, bcVars, rtVars, cfVars, vnVars>>

(***************************************************************************)
(* Generic helpers                                                         *)
(***************************************************************************)
Range(s) == {s[i] : i \in 1..Len(s)}

SeqsUpTo(S, n) == UNION {[1..k -> S] : k \in 0..n}

RECURSIVE Product(_, _)
\* the product of f[x] over x in S
Product(f, S) ==
    IF S = {} THEN 1
    ELSE LET x == CHOOSE y \in S : TRUE IN f[x] * Product(f, S \ {x})

(***************************************************************************)
(* expandCustomImageMatrix                                                 *)
(***************************************************************************)
\* the longest list of custom images the bounded inputs hold
MaxImages == 4

\* CustomImage: Source, Target (its String()), Version; DefaultOnly plays no
\* part in the expansion
CustomImage(s, t, v) == [Source |-> s, Target |-> t, Version |-> v]

\* the images the bounded inputs are drawn from: three targets, target A with
\* three distinct entries (one differing in the version only)
MatrixImages ==
    { CustomImage(s, t, "v1") : s \in {"s1", "s2"}, t \in {"A", "B", "C"} }
      \cup { CustomImage("s1", "A", "v2") }

\* mustImage of the test
mustImage(source, target, version) == CustomImage(source, target, version)

\* startImages of TestImageMatrixExpansion: a1 b1 c1 b2 b3 a2 d1
startImages ==
    << mustImage("golem-image1:v1.10.1", "image1:latest", "1.10.1"),
       mustImage("golem-image2:v1.10.1", "image2:latest", "1.10.1"),
       mustImage("golem-image3:v1.10.1", "image3:latest", "1.10.1"),
       mustImage("golem-image2:v1.10.2", "image2:latest", "1.10.2"),
       mustImage("golem-image2:v1.10.3", "image2:latest", "1.10.3"),
       mustImage("golem-image1:v1.11.1", "image1:latest", "1.11.1"),
       mustImage("golem-image4:v1.10.1", "image4:latest", "1.10.1") >>

\* the expected matrix of TestImageMatrixExpansion
testMatrix ==
    LET s == startImages IN
    << <<s[1], s[2], s[3], s[7]>>, <<s[1], s[4], s[3], s[7]>>,
       <<s[1], s[5], s[3], s[7]>>, <<s[6], s[2], s[3], s[7]>>,
       <<s[6], s[4], s[3], s[7]>>, <<s[6], s[5], s[3], s[7]>> >>

\* the second ordering example: a1 b1 a2 b2
abImages ==
    << mustImage("a1", "A", "v1"), mustImage("b1", "B", "v1"),
       mustImage("a2", "A", "v1"), mustImage("b2", "B", "v1") >>

\* a mutant of equalCustomImage: it forgets to compare the sources
equalCustomImageNoSource(i1, i2) ==
    IF i1.Target # i2.Target THEN FALSE
    ELSE IF i1.Version # i2.Version THEN FALSE
    ELSE TRUE

equalCustomImage(i1, i2) ==
    IF i1.Source # i2.Source THEN FALSE
    ELSE IF i1.Target # i2.Target THEN FALSE
    ELSE IF i1.Version # i2.Version THEN FALSE
    ELSE TRUE

\* the index of the first column of row 0 whose target is img's, 0 if none
\* (the range loop over imageMatrix[0] with its break)
RECURSIVE findColumn(_, _, _)
findColumn(row0, img, i) ==
    IF i > Len(row0) THEN 0
    ELSE IF row0[i].Target = img.Target THEN i
    ELSE findColumn(row0, img, i + 1)

\* a mutant of duplicateRows: it copies every row, divergent or not
RECURSIVE duplicateAllRows(_, _, _, _, _)
duplicateAllRows(m, i, img, j, matrixEnd) ==
    IF j > matrixEnd THEN m
    ELSE duplicateAllRows(Append(m, [m[j] EXCEPT ![i] = img]), i, img, j + 1, matrixEnd)

\* the loop for j := 0; j < matrixEnd; j++ (rows are 1-based here)
RECURSIVE duplicateRows(_, _, _, _, _)
duplicateRows(m, i, img, j, matrixEnd) ==
    IF j > matrixEnd THEN m
    ELSE IF j > 1 /\ ~equalCustomImage(m[1][i], m[j][i])
         THEN duplicateRows(m, i, img, j + 1, matrixEnd)
         ELSE duplicateRows(Append(m, [m[j] EXCEPT ![i] = img]), i, img, j + 1, matrixEnd)

\* one iteration of the loop over images
expandOne(m, img) ==
    IF Len(m) = 0 THEN << <<img>> >>
    ELSE LET i == findColumn(m[1], img, 1) IN
         IF i # 0 THEN duplicateRows(m, i, img, 1, Len(m))
         ELSE [r \in 1..Len(m) |-> Append(m[r], img)]

\* no list is being expanded
MatrixIdle ==
    /\ images = << >>
    /\ imageMatrix = << >>
    /\ mxNext = 1
    /\ mxPc = "idle"

MatrixInit ==
    /\ images \in SeqsUpTo(MatrixImages, MaxImages) \cup {startImages, abImages}
    /\ imageMatrix = << >>
    /\ mxNext = 1
    /\ mxPc = "loop"

MatrixStep ==
    /\ mxPc = "loop"
    /\ mxNext <= Len(images)
    /\ imageMatrix' = expandOne(imageMatrix, images[mxNext])
    /\ mxNext' = mxNext + 1
    /\ UNCHANGED <<images, mxPc>>
    /\ UNCHANGED <<logVars, srVars, syVars, hrVars, fpVars, bcVars, rtVars, cfVars,
                   vnVars>>

MatrixReturn ==
    /\ mxPc = "loop"
    /\ mxNext > Len(images)
    /\ mxPc' = "done"
    /\ UNCHANGED <<images, imageMatrix, mxNext>>
    /\ UNCHANGED <<logVars, srVars, syVars, hrVars, fpVars, bcVars, rtVars, cfVars,
                   vnVars>>

MatrixNext == MatrixStep \/ MatrixReturn

(***************************************************************************)
(* The expected result of the expansion, stated without the algorithm      *)
(***************************************************************************)
\* the distinct targets of a list in order of first appearance
RECURSIVE firstTargets(_, _, _)
firstTargets(l, i, acc) ==
    IF i > Len(l) THEN acc
    ELSE IF \E c \in 1..Len(acc) : acc[c] = l[i].Target
         THEN firstTargets(l, i + 1, acc)
         ELSE firstTargets(l, i + 1, Append(acc, l[i].Target))

\* k_t: the number of entries of the list for target t
entryCount(l, t) == Cardinality({i \in 1..Len(l) : l[i].Target = t})

rowCountExpected(l) ==
    IF Len(l) = 0 THEN 0
    ELSE LET ts == Range(firstTargets(l, 1, << >>)) IN
         Product([t \in ts |-> entryCount(l, t)], ts)

\* every row that takes, for each column, one entry of the list for its target
RECURSIVE crossRows(_, _, _)
crossRows(l, cols, c) ==
    IF c > Len(cols) THEN { << >> }
    ELSE LET rest == crossRows(l, cols, c + 1)
             here == {l[i] : i \in {n \in 1..Len(l) : l[n].Target = cols[c]}}
         IN { <<e>> \o r : e \in here, r \in rest }

pairwiseDistinct(l) == \A i, j \in 1..Len(l) : i # j => l[i] # l[j]

matrixAsClaimed ==
    LET cols == firstTargets(images, 1, << >>) IN
    /\ Len(imageMatrix) = rowCountExpected(images)
    /\ \A r \in 1..Len(imageMatrix) :
          /\ Len(imageMatrix[r]) = Len(cols)
          /\ \A c \in 1..Len(cols) : imageMatrix[r][c].Target = cols[c]
    /\ Len(images) > 0 => Range(imageMatrix) = crossRows(images, cols, 1)

appendedRows(m, i, img) ==
    LET same(r) == r[i] = m[1][i]
        sel == SelectSeq(m, same)
    IN [k \in 1..Len(sel) |-> [sel[k] EXCEPT ![i] = img]]

abMatrix ==
    LET s == abImages IN
    << <<s[1], s[2]>>, <<s[3], s[2]>>, <<s[1], s[4]>>, <<s[3], s[4]>> >>

\* C9: an entry for an existing target T appends, in row order, one copy of
\* every row whose T value equals row 0's, with T replaced by the new entry, and
\* leaves the existing rows in place; the test input a1 b1 c1 b2 b3 a2 d1 yields
\* the six rows of the test in that order, and a1 b1 a2 b2 yields
\* (a1,b1),(a2,b1),(a1,b2),(a2,b2).
C9_RowOrder ==
    /\ [][ (mxPc = "loop" /\ mxNext <= Len(images) /\ Len(imageMatrix) > 0
            /\ \E i \in 1..Len(imageMatrix[1]) :
                   imageMatrix[1][i].Target = images[mxNext].Target)
          => LET img == images[mxNext]
                 i == CHOOSE c \in 1..Len(imageMatrix[1]) :
                         imageMatrix[1][c].Target = img.Target
             IN imageMatrix' = imageMatrix \o appendedRows(imageMatrix, i, img) ]_vars
    /\ []((mxPc = "done" /\ images = startImages) => imageMatrix = testMatrix)
    /\ []((mxPc = "done" /\ images = abImages) => imageMatrix = abMatrix)

\* C9 witness: the test input has been expanded into its six rows, the last
\* three appended by the second entry for the first column.
C9_Witness ==
    /\ mxPc = "done"
    /\ images = startImages
    /\ Len(imageMatrix) = 6
    /\ imageMatrix[4][1] = startImages[6]

(***************************************************************************)
(* logMultiWriter and logTapper: one stream of one tapper.  Its secondaries *)
(* are the pipe write ends of its taps and plain writers added through      *)
(* AddWriter.  A Write call is several steps: the sink write, taking        *)
(* writersLock, one write per secondary, the release.                       *)
(***************************************************************************)
\* the number of Write calls of a behaviour
MaxWrites == 2

Writers == {"w1", "w2"}
Taps == {"t1", "t2"}
Plain == {"p1"}

\* the bytes b of Write call number id: two bytes, each its own value
payload(id) == << <<id, 1>>, <<id, 2>> >>

\* what Write returns after the sink write: the sink's error, a short write,
\* or "nil" when it goes on to the secondaries
\* (mutant: the short count is not checked)
sinkVerdictNoShort(n, err, len) ==
    IF err THEN "sinkErr" ELSE "nil"

sinkVerdict(n, err, len) ==
    IF err THEN "sinkErr"
    ELSE IF n # len THEN "ErrShortWrite"
    ELSE "nil"

\* whether Write deletes a secondary that returned (wN, wErr)
\* (mutant: only an error counts, a short count does not)
secondaryFaultyErrOnly(wN, wErr, n) == wErr

secondaryFaulty(wN, wErr, n) == wErr \/ wN # n

\* the secondaries the range loop visits
\* (mutant: only the taps already in the tapper's table are visited)
rangeWritersRegistered(ws, registered) == {s \in ws : s \in Plain \/ s \in registered}

rangeWriters(ws, registered) == ws

LogInit ==
    /\ sinkBuf = << >>
    /\ writers = {}
    /\ writersLock = ""
    /\ taps = {}
    /\ tapperLock = ""
    /\ wpc = [w \in Writers |-> "idle"]
    /\ wcur = [w \in Writers |-> 0]
    /\ wtodo = [w \in Writers |-> {}]
    /\ wsec = [w \in Writers |-> ""]
    /\ calls = << >>
    /\ plainGot = [g \in Plain |-> << >>]
    /\ tapState = [t \in Taps |-> "none"]
    /\ pipeData = [t \in Taps |-> << >>]
    /\ pipeWerr = [t \in Taps |-> FALSE]
    /\ rdGot = [t \in Taps |-> << >>]
    /\ rdState = [t \in Taps |-> "reading"]
    /\ tapBase = [t \in Taps |-> [k |-> 0, quiet |-> FALSE]]
    /\ tapEnd = [t \in Taps |-> [k |-> 0, quiet |-> FALSE]]

\* no task writes
LogIdle == LogInit /\ wTasks = {}

allReturned == \A w \in Writers : wpc[w] = "idle"

\* Write, lines 44-51: the sink write and the two early returns
WriteSink(w) ==
    /\ w \in wTasks
    /\ wpc[w] = "idle"
    /\ Len(calls) < MaxWrites
    /\ LET id == Len(calls) + 1
           b == payload(id)
       IN \E n \in 0..Len(b), err \in BOOLEAN :
            LET v == sinkVerdict(n, err, Len(b)) IN
            /\ sinkBuf' = sinkBuf \o SubSeq(b, 1, n)
            /\ calls' = Append(calls, [n |-> n, err |-> err, bad |-> {},
                                       ret |-> IF v = "nil" THEN "pending" ELSE v])
            /\ IF v = "nil"
               THEN /\ wpc' = [wpc EXCEPT ![w] = "locking"]
                    /\ wcur' = [wcur EXCEPT ![w] = id]
               ELSE UNCHANGED <<wpc, wcur>>
    /\ UNCHANGED <<writers, writersLock, wTasks, wtodo, wsec, plainGot>>
    /\ UNCHANGED <<tapVars, mxVars, srVars, syVars, hrVars, fpVars, bcVars, rtVars, cfVars,
                   vnVars>>

\* Write, lines 53-56: take writersLock and start ranging over lmw.writers
WriteLock(w) ==
    /\ wpc[w] = "locking"
    /\ writersLock = ""
    /\ writersLock' = w
    /\ wtodo' = [wtodo EXCEPT ![w] = rangeWriters(writers, taps)]
    /\ wpc' = [wpc EXCEPT ![w] = "ranging"]
    /\ UNCHANGED <<sinkBuf, writers, wTasks, wcur, wsec, calls, plainGot>>
    /\ UNCHANGED <<tapVars, mxVars, srVars, syVars, hrVars, fpVars, bcVars, rtVars, cfVars,
                   vnVars>>

\* Write, lines 57-67, for a plain secondary: it takes wN bytes and returns
\* (wN, wErr); a faulty one is deleted
WritePlain(w) ==
    /\ wpc[w] = "ranging"
    /\ \E s \in wtodo[w] \cap Plain :
         LET b == payload(wcur[w]) IN
         \E wN \in 0..Len(b), wErr \in BOOLEAN :
            /\ plainGot' = [plainGot EXCEPT ![s] = @ \o SubSeq(b, 1, wN)]
            /\ writers' = IF secondaryFaulty(wN, wErr, calls[wcur[w]].n)
                          THEN writers \ {s} ELSE writers
            /\ wtodo' = [wtodo EXCEPT ![w] = @ \ {s}]
            /\ calls' = [calls EXCEPT ![wcur[w]].bad =
                            IF wErr \/ wN # calls[wcur[w]].n THEN @ \cup {s} ELSE @]
    /\ UNCHANGED <<sinkBuf, writersLock, wTasks, wpc, wcur, wsec>>
    /\ UNCHANGED <<tapVars, mxVars, srVars, syVars, hrVars, fpVars, bcVars, rtVars, cfVars,
                   vnVars>>

\* Write, line 57, for a tap: PipeWriter.Write hands b to the pipe and blocks;
\* on a closed pipe it returns ErrClosedPipe at once and the tap is deleted
WritePipe(w) ==
    /\ wpc[w] = "ranging"
    /\ \E s \in wtodo[w] \cap Taps :
         IF pipeWerr[s]
         THEN /\ writers' = writers \ {s}
              /\ wtodo' = [wtodo EXCEPT ![w] = @ \ {s}]
              /\ calls' = [calls EXCEPT ![wcur[w]].bad = @ \cup {s}]
              /\ UNCHANGED <<pipeData, wpc, wsec>>
         ELSE /\ pipeData' = [pipeData EXCEPT ![s] = payload(wcur[w])]
              /\ wpc' = [wpc EXCEPT ![w] = "piping"]
              /\ wsec' = [wsec EXCEPT ![w] = s]
              /\ UNCHANGED <<writers, wtodo, calls>>
    /\ UNCHANGED <<sinkBuf, writersLock, wTasks, wcur, plainGot>>
    /\ UNCHANGED <<taps, tapperLock, tapState, pipeWerr, rdGot, rdState, tapBase, tapEnd>>
    /\ UNCHANGED <<mxVars, srVars, syVars, hrVars, fpVars, bcVars, rtVars, cfVars,
                   vnVars>>

\* Write, lines 57-67: PipeWriter.Write returns once the reader has taken all
\* of b, or with ErrClosedPipe and a short count once the write end is closed
WritePipeReturn(w) ==
    /\ wpc[w] = "piping"
    /\ LET s == wsec[w]
           b == payload(wcur[w])
           wN == Len(b) - Len(pipeData[s])
           wErr == pipeData[s] # << >>
       IN /\ pipeData[s] = << >> \/ pipeWerr[s]
          /\ writers' = IF secondaryFaulty(wN, wErr, calls[wcur[w]].n)
                        THEN writers \ {s} ELSE writers
          /\ pipeData' = [pipeData EXCEPT ![s] = << >>]
          /\ wtodo' = [wtodo EXCEPT ![w] = @ \ {s}]
          /\ calls' = [calls EXCEPT ![wcur[w]].bad =
                          IF wErr \/ wN # calls[wcur[w]].n THEN @ \cup {s} ELSE @]
    /\ wpc' = [wpc EXCEPT ![w] = "ranging"]
    /\ wsec' = [wsec EXCEPT ![w] = ""]
    /\ UNCHANGED <<sinkBuf, writersLock, wTasks, wcur, plainGot>>
    /\ UNCHANGED <<taps, tapperLock, tapState, pipeWerr, rdGot, rdState, tapBase, tapEnd>>
    /\ UNCHANGED <<mxVars, srVars, syVars, hrVars, fpVars, bcVars, rtVars, cfVars,
                   vnVars>>

\* Write, lines 54 and 70: the loop is over, release the lock, return (n, nil)
WriteUnlock(w) ==
    /\ wpc[w] = "ranging"
    /\ wtodo[w] = {}
    /\ writersLock' = ""
    /\ calls' = [calls EXCEPT ![wcur[w]].ret = "nil"]
    /\ wpc' = [wpc EXCEPT ![w] = "idle"]
    /\ wcur' = [wcur EXCEPT ![w] = 0]
    /\ UNCHANGED <<sinkBuf, writers, wTasks, wtodo, wsec, plainGot>>
    /\ UNCHANGED <<tapVars, mxVars, srVars, syVars, hrVars, fpVars, bcVars, rtVars, cfVars,
                   vnVars>>

\* RemoveWriter, line 83: delete(lmw.writers, w)
\* (mutant: the whole set is cleared)
deleteAllWriters(ws, x) == {}

deleteWriter(ws, x) == ws \ {x}

\* AddWriter, lines 73-77, for a plain secondary
AddWriter(g) ==
    /\ writersLock = ""
    /\ writers' = writers \cup {g}
    /\ UNCHANGED <<sinkBuf, writersLock, wTasks, wpc, wcur, wtodo, wsec, calls, plainGot>>
    /\ UNCHANGED <<tapVars, mxVars, srVars, syVars, hrVars, fpVars, bcVars, rtVars, cfVars,
                   vnVars>>

\* RemoveWriter, lines 79-84, for a plain secondary
RemoveWriter(g) ==
    /\ writersLock = ""
    /\ writers' = deleteWriter(writers, g)
    /\ UNCHANGED <<sinkBuf, writersLock, wTasks, wpc, wcur, wtodo, wsec, calls, plainGot>>
    /\ UNCHANGED <<tapVars, mxVars, srVars, syVars, hrVars, fpVars, bcVars, rtVars, cfVars,
                   vnVars>>

\* addTap, lines 128-129: io.Pipe and mw.AddWriter(w)
AddTapWriter(t) ==
    /\ tapState[t] = "none"
    /\ writersLock = ""
    /\ writers' = writers \cup {t}
    /\ tapState' = [tapState EXCEPT ![t] = "adding"]
    /\ tapBase' = [tapBase EXCEPT ![t] = [k |-> Len(calls), quiet |-> allReturned]]
    /\ UNCHANGED <<sinkBuf, writersLock, wTasks, wpc, wcur, wtodo, wsec, calls, plainGot>>
    /\ UNCHANGED <<taps, tapperLock, pipeData, pipeWerr, rdGot, rdState, tapEnd>>
    /\ UNCHANGED <<mxVars, srVars, syVars, hrVars, fpVars, bcVars, rtVars, cfVars,
                   vnVars>>

\* addTap, lines 136-141: under lr.l, lr.taps[t] = mw; the handle is returned
AddTapRegister(t) ==
    /\ tapState[t] = "adding"
    /\ tapperLock = ""
    /\ taps' = taps \cup {t}
    /\ tapState' = [tapState EXCEPT ![t] = "open"]
    /\ UNCHANGED <<tapperLock, pipeData, pipeWerr, rdGot, rdState, tapBase, tapEnd>>
    /\ UNCHANGED <<lmwVars, mxVars, srVars, syVars, hrVars, fpVars, bcVars, rtVars, cfVars,
                   vnVars>>

\* logTap.Read, lines 173-179, with data pending in the pipe: the reader takes
\* some or all of it (bufio passes the bytes on in order)
TapReadData(t) ==
    /\ tapState[t] \in {"open", "closing", "closed"}
    /\ rdState[t] = "reading"
    /\ pipeData[t] # << >>
    /\ \E k \in 1..Len(pipeData[t]) :
         /\ rdGot' = [rdGot EXCEPT ![t] = @ \o SubSeq(pipeData[t], 1, k)]
         /\ pipeData' = [pipeData EXCEPT ![t] = SubSeq(@, k + 1, Len(@))]
    /\ UNCHANGED <<taps, tapperLock, tapState, pipeWerr, rdState, tapBase, tapEnd>>
    /\ UNCHANGED <<lmwVars, mxVars, srVars, syVars, hrVars, fpVars, bcVars, rtVars, cfVars,
                   vnVars>>

\* logTap.Read, lines 173-179, on an empty pipe whose write end is closed: EOF
TapReadEOF(t) ==
    /\ tapState[t] \in {"open", "closing", "closed"}
    /\ rdState[t] = "reading"
    /\ pipeData[t] = << >>
    /\ pipeWerr[t]
    /\ rdState' = [rdState EXCEPT ![t] = "eof"]
    /\ UNCHANGED <<taps, tapperLock, tapState, pipeData, pipeWerr, rdGot, tapBase, tapEnd>>
    /\ UNCHANGED <<lmwVars, mxVars, srVars, syVars, hrVars, fpVars, bcVars, rtVars, cfVars,
                   vnVars>>

\* the reader of a tap stops reading without closing the tap
TapReaderStop(t) ==
    /\ tapState[t] \in {"open", "closing", "closed"}
    /\ rdState[t] = "reading"
    /\ rdState' = [rdState EXCEPT ![t] = "stopped"]
    /\ UNCHANGED <<taps, tapperLock, tapState, pipeData, pipeWerr, rdGot, tapBase, tapEnd>>
    /\ UNCHANGED <<lmwVars, mxVars, srVars, syVars, hrVars, fpVars, bcVars, rtVars, cfVars,
                   vnVars>>

\* logTap.Close -> removeTap, lines 145-148: take lr.l, delete the tap from
\* lr.taps (return nil at once if it is not there)
TapCloseLock(t) ==
    /\ tapState[t] = "open"
    /\ tapperLock = ""
    /\ IF t \in taps
       THEN /\ taps' = taps \ {t}
            /\ tapperLock' = t
            /\ tapState' = [tapState EXCEPT ![t] = "closing"]
       ELSE UNCHANGED <<taps, tapperLock, tapState>>
    /\ UNCHANGED <<pipeData, pipeWerr, rdGot, rdState, tapBase, tapEnd>>
    /\ UNCHANGED <<lmwVars, mxVars, srVars, syVars, hrVars, fpVars, bcVars, rtVars, cfVars,
                   vnVars>>

\* removeTap, lines 149-150: mw.RemoveWriter(t.wp) under writersLock, then
\* t.wp.Close(), then lr.l is released
TapCloseRemove(t) ==
    /\ tapState[t] = "closing"
    /\ writersLock = ""
    /\ writers' = deleteWriter(writers, t)
    /\ pipeWerr' = [pipeWerr EXCEPT ![t] = TRUE]
    /\ tapperLock' = ""
    /\ tapState' = [tapState EXCEPT ![t] = "closed"]
    /\ tapEnd' = [tapEnd EXCEPT ![t] = [k |-> Len(calls), quiet |-> allReturned]]
    /\ UNCHANGED <<sinkBuf, writersLock, wTasks, wpc, wcur, wtodo, wsec, calls, plainGot>>
    /\ UNCHANGED <<taps, pipeData, rdGot, rdState, tapBase>>
    /\ UNCHANGED <<mxVars, srVars, syVars, hrVars, fpVars, bcVars, rtVars, cfVars,
                   vnVars>>

WriteNext(w) ==
    \/ WriteSink(w)
    \/ WriteLock(w)
    \/ WritePipe(w)
    \/ WritePipeReturn(w)
    \/ WriteUnlock(w)

TapNext(t) ==
    \/ AddTapWriter(t)
    \/ AddTapRegister(t)
    \/ TapReadData(t)
    \/ TapReadEOF(t)
    \/ TapReaderStop(t)
    \/ TapCloseLock(t)
    \/ TapCloseRemove(t)

\* a multi-writer with a plain secondary and one tap, written by two tasks
LogNext ==
    \/ \E w \in Writers : WriteNext(w) \/ WritePlain(w)
    \/ \E g \in Plain : AddWriter(g) \/ RemoveWriter(g)
    \/ TapNext("t1")

\* a tapper with two taps, written by one task
TapperNext ==
    \/ WriteNext("w1")
    \/ \E t \in Taps : TapNext(t)

(***************************************************************************)
(* What the multi-writer and the taps are expected to have delivered        *)
(***************************************************************************)
\* sub occurs in s as one contiguous run
containsRun(s, sub) ==
    \E i \in 0..(Len(s) - Len(sub)) : SubSeq(s, i + 1, i + Len(sub)) = sub

isPrefix(a, b) == Len(a) <= Len(b) /\ SubSeq(b, 1, Len(a)) = a

\* the bytes of call id among those of s
bytesOf(s, id) == {i \in 1..Len(s) : s[i][1] = id}

\* everything secondary x has been handed so far
secondaryGot(x) ==
    IF x \in Plain THEN plainGot[x] ELSE rdGot[x] \o pipeData[x]

\* the payloads of the calls lo..hi the sink took in full, in call order
RECURSIVE acceptedPayloads(_, _)
acceptedPayloads(lo, hi) ==
    IF lo > hi THEN << >>
    ELSE (IF calls[lo].ret \in {"nil", "pending"} THEN payload(lo) ELSE << >>)
           \o acceptedPayloads(lo + 1, hi)

\* what the sink was handed: of every call, in call order, the n bytes it took
RECURSIVE sinkTaken(_)
sinkTaken(hi) ==
    IF hi = 0 THEN << >>
    ELSE sinkTaken(hi - 1) \o SubSeq(payload(hi), 1, calls[hi].n)

\* C1: a Write that returned success had all of b written to the primary sink
\* in one contiguous run, before any secondary was handed a byte of b; when the
\* sink errors or short-writes, Write returns that error (ErrShortWrite for a
\* short count) and no secondary is handed b; and the sink's content changes
\* only by a Write's own sink write, never by a secondary's error, short write
\* or removal.
C1_PrimaryDurability ==
    /\ [](\A id \in 1..Len(calls) :
            LET c == calls[id]
                b == payload(id)
            IN /\ c.ret = "nil" => containsRun(sinkBuf, b)
               /\ \A x \in Plain \cup Taps :
                     bytesOf(secondaryGot(x), id) # {}
                        => (containsRun(sinkBuf, b) /\ ~c.err /\ c.n = Len(b))
               /\ c.err => c.ret = "sinkErr"
               /\ (~c.err /\ c.n < Len(b)) => c.ret = "ErrShortWrite")
    /\ [][ sinkBuf' # sinkBuf
             => /\ Len(calls') = Len(calls) + 1
                /\ LET id == Len(calls')
                   IN sinkBuf' = sinkBuf \o SubSeq(payload(id), 1, calls'[id].n) ]_vars
    /\ [][ writers' # writers => sinkBuf' = sinkBuf ]_vars

\* C1 witness: one Write returned success although the plain secondary took
\* only the first byte of it and was removed, and another Write returned
\* ErrShortWrite.
C1_Witness ==
    /\ \E id \in 1..Len(calls) :
          /\ calls[id].ret = "nil"
          /\ Cardinality(bytesOf(plainGot["p1"], id)) = 1
    /\ "p1" \notin writers
    /\ \E id \in 1..Len(calls) : calls[id].ret = "ErrShortWrite"

\* C2: with one Write after the other, a tap added when k writes had returned
\* (none in progress) never reads a byte of writes 1..k, reads the bytes of the
\* later writes in order without repetition, and, once it was closed with N
\* writes returned (none in progress) and its reader has read to EOF, has read
\* exactly the bytes of writes k+1..N (those the sink took); the primary sink
\* holds what it took of every write, in order.
C2_TapFreshness ==
    /\ \A t \in Taps :
         (tapState[t] # "none" /\ tapBase[t].quiet) =>
            /\ isPrefix(rdGot[t], acceptedPayloads(tapBase[t].k + 1, Len(calls)))
            /\ (rdState[t] = "eof" /\ tapEnd[t].quiet)
                 => rdGot[t] = acceptedPayloads(tapBase[t].k + 1, tapEnd[t].k)
    /\ sinkBuf = sinkTaken(Len(calls))

\* C2 witness: the second tap was added after write 1, closed after write 2,
\* and its reader has read exactly write 2 up to EOF, while the first tap,
\* added before write 1, has read both.
C2_Witness ==
    /\ Len(calls) = 2
    /\ \A id \in 1..2 : calls[id].ret = "nil"
    /\ tapBase["t2"] = [k |-> 1, quiet |-> TRUE]
    /\ tapEnd["t2"] = [k |-> 2, quiet |-> TRUE]
    /\ rdState["t2"] = "eof"
    /\ rdGot["t2"] = payload(2)
    /\ tapBase["t1"] = [k |-> 0, quiet |-> TRUE]
    /\ rdGot["t1"] = payload(1) \o payload(2)

\* s holds the bytes of the calls in the order of the call numbers, which is
\* the order of the sink writes (a call is numbered by its sink write)
inSinkOrder(s) == \A i, j \in 1..Len(s) : i < j => s[i][1] <= s[j][1]

\* C11: whatever tasks issue the Write calls, every secondary that was handed
\* bytes of two of the writes was handed them in the order in which the primary
\* sink received the two writes.
C11_SecondaryOrder ==
    \A x \in Plain \cup Taps : inSinkOrder(secondaryGot(x))

\* the secondaries recorded as having returned an error or a short count in
\* the step, and those the step deleted from lmw.writers
failedInStep ==
    UNION {calls'[id].bad \ (IF id <= Len(calls) THEN calls[id].bad ELSE {}) :
             id \in 1..Len(calls')}

\* C12: a secondary that returns an error or a short count while Write(b)
\* delivers to it is deleted from the set in that step and is handed nothing
\* while it is not a member; Write deletes no other secondary; a Write in which
\* a secondary failed returns success; and when a Write returns, every
\* secondary still in the set has been handed b in full.
C12_FaultySecondaryDropped ==
    /\ [][ \A x \in failedInStep : x \in writers /\ x \notin writers' ]_vars
    /\ [][ \A x \in Plain \cup Taps :
             (x \notin writers /\ secondaryGot(x)' # secondaryGot(x))
                => Len(secondaryGot(x)') <= Len(secondaryGot(x)) ]_vars
    /\ [][ wtodo' # wtodo => (writers \ writers') \subseteq failedInStep ]_vars
    /\ [](\A id \in 1..Len(calls) :
            calls[id].bad # {} => calls[id].ret \in {"pending", "nil"})
    /\ [][ \A id \in 1..Len(calls) :
             (calls[id].ret = "pending" /\ calls'[id].ret # "pending")
                => /\ calls'[id].ret = "nil"
                   /\ \A x \in writers :
                         containsRun(secondaryGot(x), payload(id)) ]_vars

\* C12 witness: in the first Write the plain secondary returned a fault and
\* was deleted while the tap's reader read all of it; the second Write also
\* returned success, the tap's reader read it too, and the plain secondary
\* was handed none of it.
C12_Witness ==
    /\ Len(calls) = 2
    /\ \A id \in 1..2 : calls[id].ret = "nil"
    /\ calls[1].bad = {"p1"}
    /\ "p1" \notin writers
    /\ bytesOf(plainGot["p1"], 2) = {}
    /\ containsRun(rdGot["t1"], payload(1))
    /\ containsRun(rdGot["t1"], payload(2))

\* with one writing task: the first call handed to a tap added at mark m, and
\* the last call handed to a tap removed at mark m (a call that had written the
\* sink but not yet taken writersLock at the mark is handed to the tap in the
\* first case and not in the second)
firstAfter(m) == IF m.quiet THEN m.k + 1 ELSE m.k

lastBefore(m) == IF m.quiet THEN m.k ELSE m.k - 1

issued(id) == Len(calls) >= id

returned(id) == Len(calls) >= id /\ calls[id].ret # "pending"

\* every Write call that was issued returns
writesComplete == \A id \in 1..MaxWrites : issued(id) ~> returned(id)

\* nobody calls Close on the tap
neverClosed == [](tapState["t1"] \notin {"closing", "closed"})

\* C14: every Write call that was issued returns, also when the reader of a
\* tap has stopped reading without the tap being closed (a Write blocks on
\* nothing but the primary sink, whose write is one step here).
C14_WritesComplete == neverClosed => writesComplete

\* the same as long as the reader of the tap keeps reading
C14_WritesCompleteWhileRead ==
    [](rdState["t1"] # "stopped") => writesComplete

(***************************************************************************)
(* runnerMain: Setup, RunTests, TearDown of the suite runner.  Every script *)
(* and every engine step either succeeds or fails; logrus.Fatalf ends the   *)
(* process with exit code 1 on the spot.                                    *)
(***************************************************************************)
\* the most setup scripts, and the most test scripts, of an instance
MaxScripts == 2

\* StartDaemon: the poll gives up when i >= 10
pollLimit == 10
\* StartDaemon: seconds slept before the first poll
startSleep == 2
\* StartDaemon: seconds slept between two polls
pollSleep == 1

SuiteInit ==
    /\ srConf \in [dind : BOOLEAN, clean : BOOLEAN, compose : BOOLEAN,
                   nSetup : 0..MaxScripts, nTests : 0..MaxScripts]
    /\ srPc = "setupScripts"
    /\ srIdx = 1
    /\ srLog = << >>
    /\ daemonCloser = "nil"
    /\ daemonUp = FALSE
    /\ sdTry = 0
    /\ sdWaited = 0
    /\ runErr = FALSE
    /\ srCalls = [tearDown |-> 0, composeStop |-> 0, daemonClose |-> 0]
    /\ exitCode = -1

\* the suite runner is not started
SuiteIdle ==
    /\ srConf = [dind |-> FALSE, clean |-> FALSE, compose |-> FALSE,
                 nSetup |-> 0, nTests |-> 0]
    /\ srPc = "idle"
    /\ srIdx = 1
    /\ srLog = << >>
    /\ daemonCloser = "nil"
    /\ daemonUp = FALSE
    /\ sdTry = 0
    /\ sdWaited = 0
    /\ runErr = FALSE
    /\ srCalls = [tearDown |-> 0, composeStop |-> 0, daemonClose |-> 0]
    /\ exitCode = -1

\* logrus.Fatalf: the process exits with code 1, nothing deferred runs
Fatalf ==
    /\ srPc' = "exited"
    /\ exitCode' = 1

\* runnerMain, lines 405-407: Setup returned an error, logrus.Fatalf
setupFailed ==
    /\ Fatalf
    /\ UNCHANGED runErr

\* a Setup that starts the nested daemon whether or not dind is set
afterSetupScriptsDaemon ==
    IF srConf.clean THEN "cleanGraph" ELSE "startDaemon"

\* the step of Setup that follows the setup scripts
afterSetupScripts ==
    IF srConf.dind THEN (IF srConf.clean THEN "cleanGraph" ELSE "startDaemon")
    ELSE "tests"

\* the step of Setup that follows syncImages
afterSyncImages == IF srConf.compose THEN "composeBuild" ELSE "tests"

\* one entry of srLog: the step that was started, the script's position (0
\* for a step that is no script) and whether the step succeeded
done(step, idx, ok) == [step |-> step, idx |-> idx, ok |-> ok]

\* Setup, lines 71-75: one setup script; a failing one ends Setup
SetupScript ==
    /\ srPc = "setupScripts"
    /\ srIdx <= srConf.nSetup
    /\ \E ok \in BOOLEAN :
         /\ srLog' = Append(srLog, done("setup", srIdx, ok))
         /\ IF ok THEN /\ srIdx' = srIdx + 1
                       /\ UNCHANGED <<srPc, exitCode, runErr>>
            ELSE setupFailed /\ UNCHANGED srIdx
    /\ UNCHANGED <<srConf, daemonCloser, daemonUp, sdTry, sdWaited, srCalls>>
    /\ UNCHANGED <<mxVars, logVars, syVars, hrVars, fpVars, bcVars, rtVars, cfVars,
                   vnVars>>

\* Setup, lines 75-78: the setup scripts are done
SetupScriptsDone ==
    /\ srPc = "setupScripts"
    /\ srIdx > srConf.nSetup
    /\ srPc' = afterSetupScripts
    /\ srIdx' = 1
    /\ UNCHANGED <<srConf, srLog, daemonCloser, daemonUp, sdTry, sdWaited, runErr,
                   srCalls, exitCode>>
    /\ UNCHANGED <<mxVars, logVars, syVars, hrVars, fpVars, bcVars, rtVars, cfVars,
                   vnVars>>

\* Setup, lines 79-92: erase the contents of /var/lib/docker
CleanGraph ==
    /\ srPc = "cleanGraph"
    /\ \E ok \in BOOLEAN :
         /\ srLog' = Append(srLog, done("cleanGraph", 0, ok))
         /\ IF ok THEN srPc' = "startDaemon" /\ UNCHANGED <<exitCode, runErr>>
            ELSE setupFailed
    /\ UNCHANGED <<srConf, srIdx, daemonCloser, daemonUp, sdTry, sdWaited, srCalls>>
    /\ UNCHANGED <<mxVars, logVars, syVars, hrVars, fpVars, bcVars, rtVars, cfVars,
                   vnVars>>

\* StartDaemon, lines 231-258: the binary's version, cmd.Start, the first
\* sleep, the client.  An error before cmd.Start leaves no process, an error
\* of NewEnvClient leaves the started process behind.
StartDaemonLaunch ==
    /\ srPc = "startDaemon"
    /\ \E r \in {"noProcess", "noClient", "ok"} :
         /\ srLog' = Append(srLog, done("startDaemon", 0, r = "ok"))
         /\ daemonUp' = (r # "noProcess")
         /\ IF r = "ok"
            THEN /\ srPc' = "pollDaemon"
                 /\ sdTry' = 0
                 /\ sdWaited' = startSleep
                 /\ UNCHANGED <<exitCode, runErr>>
            ELSE setupFailed /\ UNCHANGED <<sdTry, sdWaited>>
    /\ UNCHANGED <<srConf, srIdx, daemonCloser, srCalls>>
    /\ UNCHANGED <<mxVars, logVars, syVars, hrVars, fpVars, bcVars, rtVars, cfVars,
                   vnVars>>

\* a poll budget that is longer than the one of StartDaemon
pollGivesUpLate(i) == i >= pollLimit + 3

\* StartDaemon, lines 266-268: the failed poll i is the last one
pollGivesUp(i) == i >= pollLimit

\* StartDaemon, lines 261-281: one poll of the version endpoint; the poll
\* that gives up ends the process by logrus.Fatalf
PollDaemon ==
    /\ srPc = "pollDaemon"
    /\ \E ok \in BOOLEAN :
         IF ok
         THEN /\ daemonCloser' = "kill"
              /\ srPc' = "rmContainers"
              /\ UNCHANGED <<sdTry, sdWaited, exitCode, srLog>>
         ELSE IF pollGivesUp(sdTry)
              THEN /\ Fatalf
                   /\ srLog' = Append(srLog, done("pollDaemon", sdTry, FALSE))
                   /\ UNCHANGED <<daemonCloser, sdTry, sdWaited>>
              ELSE /\ sdWaited' = sdWaited + pollSleep
                   /\ sdTry' = sdTry + 1
                   /\ UNCHANGED <<daemonCloser, srPc, exitCode, srLog>>
    /\ UNCHANGED <<srConf, srIdx, daemonUp, runErr, srCalls>>
    /\ UNCHANGED <<mxVars, logVars, syVars, hrVars, fpVars, bcVars, rtVars, cfVars,
                   vnVars>>

\* Setup, lines 105-118: list and remove every container
RemoveContainers ==
    /\ srPc = "rmContainers"
    /\ \E ok \in BOOLEAN :
         /\ srLog' = Append(srLog, done("rmContainers", 0, ok))
         /\ IF ok THEN srPc' = "syncImages" /\ UNCHANGED <<exitCode, runErr>>
            ELSE setupFailed
    /\ UNCHANGED <<srConf, srIdx, daemonCloser, daemonUp, sdTry, sdWaited, srCalls>>
    /\ UNCHANGED <<mxVars, logVars, syVars, hrVars, fpVars, bcVars, rtVars, cfVars,
                   vnVars>>

\* Setup, lines 120-123: syncImages
SetupSyncImages ==
    /\ srPc = "syncImages"
    /\ \E ok \in BOOLEAN :
         /\ srLog' = Append(srLog, done("syncImages", 0, ok))
         /\ IF ok THEN srPc' = afterSyncImages /\ UNCHANGED <<exitCode, runErr>>
            ELSE setupFailed
    /\ UNCHANGED <<srConf, srIdx, daemonCloser, daemonUp, sdTry, sdWaited, srCalls>>
    /\ UNCHANGED <<mxVars, logVars, syVars, hrVars, fpVars, bcVars, rtVars, cfVars,
                   vnVars>>

\* Setup, lines 125-139: docker-compose build
ComposeBuild ==
    /\ srPc = "composeBuild"
    /\ \E ok \in BOOLEAN :
         /\ srLog' = Append(srLog, done("composeBuild", 0, ok))
         /\ IF ok THEN srPc' = "composeUp" /\ UNCHANGED <<exitCode, runErr>>
            ELSE setupFailed
    /\ UNCHANGED <<srConf, srIdx, daemonCloser, daemonUp, sdTry, sdWaited, srCalls>>
    /\ UNCHANGED <<mxVars, logVars, syVars, hrVars, fpVars, bcVars, rtVars, cfVars,
                   vnVars>>

\* Setup, lines 140-163: docker-compose up -d, then the task of
\* docker-compose logs is started; the error of that task is only logged
ComposeUp ==
    /\ srPc = "composeUp"
    /\ \E ok, logsOk \in BOOLEAN :
         IF ok
         THEN /\ srLog' = Append(Append(srLog, done("composeUp", 0, TRUE)),
                                 done("composeLogs", 0, logsOk))
              /\ srPc' = "tests"
              /\ UNCHANGED <<exitCode, runErr>>
         ELSE /\ srLog' = Append(srLog, done("composeUp", 0, FALSE))
              /\ logsOk
              /\ setupFailed
    /\ UNCHANGED <<srConf, srIdx, daemonCloser, daemonUp, sdTry, sdWaited, srCalls>>
    /\ UNCHANGED <<mxVars, logVars, syVars, hrVars, fpVars, bcVars, rtVars, cfVars,
                   vnVars>>

\* a RunTests that goes on after a failed script
runFailedNever(ok) == FALSE

\* RunTests, lines 203-205: cmd.Run returned an error
runFailed(ok) == ~ok

\* RunTests, lines 198-207: one test script, started when the one before it
\* has ended; a failing one ends RunTests with its error
RunTest ==
    /\ srPc = "tests"
    /\ srIdx <= srConf.nTests
    /\ \E ok \in BOOLEAN :
         /\ srLog' = Append(srLog, done("test", srIdx, ok))
         /\ IF runFailed(ok)
            THEN /\ runErr' = TRUE
                 /\ srPc' = "tearDown"
                 /\ UNCHANGED srIdx
            ELSE /\ srIdx' = srIdx + 1
                 /\ UNCHANGED <<srPc, runErr>>
    /\ UNCHANGED <<srConf, daemonCloser, daemonUp, sdTry, sdWaited, srCalls, exitCode>>
    /\ UNCHANGED <<mxVars, logVars, syVars, hrVars, fpVars, bcVars, rtVars, cfVars,
                   vnVars>>

\* RunTests, lines 209-211: every test script passed
RunTestsDone ==
    /\ srPc = "tests"
    /\ srIdx > srConf.nTests
    /\ srPc' = "tearDown"
    /\ UNCHANGED <<srConf, srIdx, srLog, daemonCloser, daemonUp, sdTry, sdWaited,
                   runErr, srCalls, exitCode>>
    /\ UNCHANGED <<mxVars, logVars, syVars, hrVars, fpVars, bcVars, rtVars, cfVars,
                   vnVars>>

\* TearDown, lines 171-181: entered; docker-compose stop when dind and a
\* compose file are set, its error only logged
TearDownCompose ==
    /\ srPc = "tearDown"
    /\ IF srConf.dind /\ srConf.compose
       THEN /\ srCalls' = [srCalls EXCEPT !.tearDown = @ + 1, !.composeStop = @ + 1]
            /\ \E ok \in BOOLEAN :
                 srLog' = Append(srLog, done("composeStop", 0, ok))
       ELSE /\ srCalls' = [srCalls EXCEPT !.tearDown = @ + 1]
            /\ UNCHANGED srLog
    /\ srPc' = "tearDownDaemon"
    /\ UNCHANGED <<srConf, srIdx, daemonCloser, daemonUp, sdTry, sdWaited, runErr,
                   exitCode>>
    /\ UNCHANGED <<mxVars, logVars, syVars, hrVars, fpVars, bcVars, rtVars, cfVars,
                   vnVars>>

\* TearDown, lines 183-190: sr.daemonCloser() when dind, its error only
\* logged; calling a nil closer panics (exit code 2)
TearDownDaemon ==
    /\ srPc = "tearDownDaemon"
    /\ IF ~srConf.dind
       THEN /\ srPc' = "finish"
            /\ UNCHANGED <<srCalls, srLog, daemonUp, exitCode>>
       ELSE IF daemonCloser = "nil"
       THEN /\ srPc' = "exited"
            /\ exitCode' = 2
            /\ UNCHANGED <<srCalls, srLog, daemonUp>>
       ELSE /\ srCalls' = [srCalls EXCEPT !.daemonClose = @ + 1]
            /\ \E r \in {"ok", "notKilled", "pidFileLeft"} :
                 /\ srLog' = Append(srLog, done("daemonClose", 0, r = "ok"))
                 /\ daemonUp' = (daemonUp /\ r = "notKilled")
            /\ srPc' = "finish"
            /\ UNCHANGED exitCode
    /\ UNCHANGED <<srConf, srIdx, daemonCloser, sdTry, sdWaited, runErr>>
    /\ UNCHANGED <<mxVars, logVars, syVars, hrVars, fpVars, bcVars, rtVars, cfVars,
                   vnVars>>

\* TearDown, lines 183-190: the error TearDown returns is the one of the
\* daemon shutdown function
tearDownErr ==
    \E i \in 1..Len(srLog) : srLog[i].step = "daemonClose" /\ ~srLog[i].ok

\* a runnerMain that fails the run on the error of TearDown as well
exitStatusTearDown(re, td) == IF re \/ td THEN 1 ELSE 0

\* runnerMain, lines 411-421: the error of TearDown is logged, the error of
\* RunTests ends the process by logrus.Fatalf
exitStatus(re, td) == IF re THEN 1 ELSE 0

\* runnerMain, lines 415-421: Fatalf on a test error, else Shutdown and return
MainFinish ==
    /\ srPc = "finish"
    /\ srPc' = "exited"
    /\ exitCode' = exitStatus(runErr, tearDownErr)
    /\ UNCHANGED <<srConf, srIdx, srLog, daemonCloser, daemonUp, sdTry, sdWaited,
                   runErr, srCalls>>
    /\ UNCHANGED <<mxVars, logVars, syVars, hrVars, fpVars, bcVars, rtVars, cfVars,
                   vnVars>>

SuiteNext ==
    \/ SetupScript
    \/ SetupScriptsDone
    \/ CleanGraph
    \/ StartDaemonLaunch
    \/ PollDaemon
    \/ RemoveContainers
    \/ SetupSyncImages
    \/ ComposeBuild
    \/ ComposeUp
    \/ RunTest
    \/ RunTestsDone
    \/ TearDownCompose
    \/ TearDownDaemon
    \/ MainFinish

\* C3: in every execution teardown has run once before the process exits, a
\* failed setup script, a failed setup step or a failed test included: compose
\* stop exactly once when dind and compose are set, the daemon shutdown function
\* exactly once when dind is set.
C3_TeardownAlwaysRuns ==
    srPc = "exited" =>
       /\ srCalls.tearDown = 1
       /\ srConf.dind => srCalls.daemonClose = 1
       /\ (srConf.dind /\ srConf.compose) => srCalls.composeStop = 1

\* the entries of srLog of the test scripts, in the order they were started
testsRun == SelectSeq(srLog, LAMBDA e : e.step = "test")

\* RunTests has returned to runnerMain
runTestsReturned ==
    \/ srPc \in {"tearDown", "tearDownDaemon", "finish"}
    \/ srPc = "exited" /\ srCalls.tearDown = 1

\* some test script that was run failed
testErr == \E i \in 1..Len(testsRun) : ~testsRun[i].ok

\* C21: RunTests runs the test scripts in the order of their declaration, each
\* once; no script is started after a failed one; RunTests returns an error
\* exactly when a script failed, and it returns nil only when every declared
\* script was run and succeeded.
C21_RunTestsInOrder ==
    /\ \A i \in 1..Len(testsRun) :
         /\ testsRun[i].idx = i
         /\ i <= srConf.nTests
         /\ ~testsRun[i].ok => i = Len(testsRun)
    /\ runErr => runTestsReturned
    /\ runTestsReturned =>
         /\ runErr <=> testErr
         /\ ~runErr => Len(testsRun) = srConf.nTests

\* two test scripts are declared, the first one failed, RunTests returned its
\* error and the second one was never started
C21_Witness ==
    /\ srConf.nTests = 2
    /\ runTestsReturned
    /\ runErr
    /\ Len(testsRun) = 1
    /\ ~testsRun[1].ok

\* the steps of Setup whose failure is returned by Setup, or ends the process
\* inside StartDaemon
FailingSetupSteps ==
    {"setup", "cleanGraph", "startDaemon", "pollDaemon", "rmContainers",
     "syncImages", "composeBuild", "composeUp"}

\* some step of Setup failed
setupErr ==
    \E i \in 1..Len(srLog) : srLog[i].step \in FailingSetupSteps /\ ~srLog[i].ok

\* some step of TearDown failed
tearDownFailed ==
    \E i \in 1..Len(srLog) :
        srLog[i].step \in {"composeStop", "daemonClose"} /\ ~srLog[i].ok

\* C22: the process exits with a non-zero code exactly when a step of Setup
\* failed or a test script failed; the exit code does not depend on whether
\* compose stop or the daemon shutdown function failed during TearDown.
C22_ExitStatus ==
    srPc = "exited" =>
       /\ exitCode \in {0, 1}
       /\ exitCode # 0 <=> (setupErr \/ testErr)

\* a run without a failed setup step or test script, in which compose stop
\* and the daemon shutdown function both failed, has exited with code 0
C22_Witness ==
    /\ srPc = "exited"
    /\ exitCode = 0
    /\ \E i \in 1..Len(srLog) : srLog[i].step = "composeStop" /\ ~srLog[i].ok
    /\ tearDownErr
    /\ srConf.nTests = 2

\* a sequence of n setup script steps
scriptSteps(n) == [i \in 1..n |-> <<"setup", i>>]

\* Setup, lines 67-167: the steps of a Setup in which nothing fails
expectedSetup(c) ==
    scriptSteps(c.nSetup)
    \o (IF c.dind
        THEN (IF c.clean THEN << <<"cleanGraph", 0>> >> ELSE << >>)
             \o << <<"startDaemon", 0>>, <<"rmContainers", 0>>,
                   <<"syncImages", 0>> >>
             \o (IF c.compose
                 THEN << <<"composeBuild", 0>>, <<"composeUp", 0>>,
                         <<"composeLogs", 0>> >>
                 ELSE << >>)
        ELSE << >>)

\* the entries of srLog of the steps Setup starts (the poll that gives up is
\* part of the step startDaemon)
setupRun ==
    SelectSeq(srLog, LAMBDA e : e.step \in (FailingSetupSteps \cup {"composeLogs"})
                                           \ {"pollDaemon"})

\* Setup has returned nil
setupReturned ==
    \/ srPc \in {"tests", "tearDown", "tearDownDaemon", "finish"}
    \/ srPc = "exited" /\ srCalls.tearDown = 1

\* C23: the steps of Setup are started in the fixed order: the setup scripts
\* in order, then, only when dind is set, the erasing of the daemon state
\* directory (only when clean is set), the nested daemon, the removal of the
\* containers, the images, compose build, compose up and the logs task (the
\* last three only with a compose file).  A failed step other than the logs
\* task is the last step of the run; a Setup that returned ran every step.
C23_SetupOrder ==
    /\ Len(setupRun) <= Len(expectedSetup(srConf))
    /\ \A i \in 1..Len(setupRun) :
         <<setupRun[i].step, setupRun[i].idx>> = expectedSetup(srConf)[i]
    /\ \A i \in 1..Len(srLog) :
         (srLog[i].step \in FailingSetupSteps /\ ~srLog[i].ok) =>
            /\ i = Len(srLog)
            /\ srPc = "exited"
            /\ exitCode = 1
    /\ \A i \in 1..Len(srLog) :
         srLog[i].step = "pollDaemon" =>
            i > 1 /\ srLog[i - 1].step = "startDaemon"
    /\ \A i, j \in 1..Len(srLog) :
         (i < j /\ srLog[i].step \in {"test", "composeStop", "daemonClose"}) =>
            srLog[j].step \notin FailingSetupSteps \cup {"composeLogs"}
    /\ setupReturned => Len(setupRun) = Len(expectedSetup(srConf))
    /\ setupErr => ~setupReturned

\* with dind, clean and a compose file every step ran, the logs task failed
\* and Setup returned all the same
C23_Witness ==
    /\ srConf.dind /\ srConf.clean /\ srConf.compose
    /\ srConf.nSetup = 2
    /\ srPc = "tests"
    /\ Len(setupRun) = 9
    /\ ~setupRun[9].ok

\* the seconds StartDaemon has slept when poll i is made
sleptBefore(i) == startSleep + i * pollSleep

\* C30: the wait of StartDaemon for the daemon is bounded: no more than
\* pollLimit failed polls are followed by another poll, one second apart, the
\* poll in progress is always left, the first poll that succeeds ends the
\* wait, and when no poll succeeds the failure is declared after 12 seconds
\* of sleeping.
C30_BoundedWait ==
    /\ [](/\ sdTry <= pollLimit
          /\ sdWaited <= 12
          /\ srPc = "pollDaemon" => sdWaited = sleptBefore(sdTry)
          /\ \A i \in 1..Len(srLog) :
               srLog[i].step = "pollDaemon" =>
                  /\ srLog[i].idx = pollLimit
                  /\ sdWaited = 12
                  /\ srPc = "exited")
    /\ [][(srPc = "pollDaemon" /\ daemonCloser' = "kill") =>
             (srPc' = "rmContainers" /\ sdWaited' = sdWaited)]_vars
    /\ \A n \in 0..pollLimit :
         (srPc = "pollDaemon" /\ sdTry = n) ~> ~(srPc = "pollDaemon" /\ sdTry = n)

\* no poll succeeded: StartDaemon gave up after the poll with i = 10, having
\* slept 12 seconds
C30_Witness ==
    /\ srPc = "exited"
    /\ srLog # << >>
    /\ srLog[Len(srLog)].step = "pollDaemon"
    /\ sdTry = pollLimit
    /\ sdWaited = 12

(***************************************************************************)
(* syncImages: the images and tags of the nested engine are made to match   *)
(* the manifest /images/images.json.  The engine is the state the calls of   *)
(* the client act on: ImageTag with Force moves a tag, ImageRemove of a tag  *)
(* untags and deletes the image when that was its last tag, ImageRemove of   *)
(* an id with Force deletes the image and its tags.  Every call may fail.    *)
(***************************************************************************)
ImageIDs == {"i1", "i2", "i3"}
\* the ids a manifest may mention
ManifestIDs == {"i1", "i2"}
RepoTagNames == {"x:1", "y:1", "z:1"}
\* sort.Strings on the tag names
tagRank == [t \in RepoTagNames |-> CASE t = "x:1" -> 1 [] t = "y:1" -> 2 [] t = "z:1" -> 3]
noneTags == {"<none>", "<none>:<none>"}

\* the first of a set of tags in sorted order
firstTag(S) == CHOOSE t \in S : \A u \in S : tagRank[t] <= tagRank[u]

\* the tags of the engine that point to id
tagsOf(tags, id) == {t \in RepoTagNames : tags[t] = id}

\* RepoTags of a listed image: its tags, or the <none> entry of an untagged one
repoTagsOf(tags, id) ==
    IF tagsOf(tags, id) = {} THEN {"<none>:<none>"} ELSE tagsOf(tags, id)

\* the engine states: every tag points to an image held, or to none
Engines ==
    {e \in [images : SUBSET ImageIDs, tags : [RepoTagNames -> ImageIDs \cup {"none"}]] :
        \A t \in RepoTagNames : e.tags[t] \in e.images \cup {"none"}}

\* the manifests: any tag map over ManifestIDs
Manifests ==
    UNION {[D -> SUBSET RepoTagNames] : D \in SUBSET ManifestIDs}

\* saveTagMap: an id is a key only with a tag appended to it
savedByTagMap(m) == \A id \in DOMAIN m : m[id] # {}

filterRepoTags(tags) == tags \ noneTags

\* listDiff: the removed and the added of two sorted lists
listDiff(l1, l2) == [removed |-> l1 \ l2, added |-> l2 \ l1]

\* allTags of syncImages
allTags(m) == UNION {m[id] : id \in DOMAIN m}

\* a reconcile that takes every removed tag for a target of the manifest
conflictsAlways(t, m) == TRUE

\* a reconcile that removes the images the manifest does not map even
\* without clean
removesUnmappedAlways(clean) == TRUE

\* lines 377-384: an image the manifest does not map is removed when clean
removesUnmapped(clean) == clean

\* (mutant: no removed tag counts as a target of the manifest)
conflictsNever(t, m) == FALSE

\* lines 364-366: the removed tag is a target of the manifest
conflictsWithExpected(t, m) == t \in allTags(m)

SyncInit ==
    /\ syManifest \in Manifests
    /\ syClean \in BOOLEAN
    /\ \E e \in Engines : engImages = e.images /\ engTags = e.tags /\ eng0 = e
    /\ syPc = "start"
    /\ sySnap = << >>
    /\ syTodo = {}
    /\ syNeeded = {}
    /\ syCur = "none"
    /\ syAdds = {}
    /\ syRems = {}
    /\ syErr = FALSE

\* syncImages is not running
SyncIdle ==
    /\ syManifest = << >>
    /\ syClean = FALSE
    /\ engImages = {}
    /\ engTags = [t \in RepoTagNames |-> "none"]
    /\ eng0 = [images |-> {}, tags |-> [t \in RepoTagNames |-> "none"]]
    /\ syPc = "idle"
    /\ sySnap = << >>
    /\ syTodo = {}
    /\ syNeeded = {}
    /\ syCur = "none"
    /\ syAdds = {}
    /\ syRems = {}
    /\ syErr = FALSE

\* an error return of syncImages
syncFails ==
    /\ syPc' = "done"
    /\ syErr' = TRUE

\* tagImage: ImageTag with Force; the image must be held
tagImage(img, t) ==
    \E ok \in BOOLEAN :
       IF ok /\ img \in engImages
       THEN /\ engTags' = [engTags EXCEPT ![t] = img]
            /\ UNCHANGED <<syPc, syErr>>
       ELSE syncFails /\ UNCHANGED engTags

\* lines 323-346: the manifest is read, allTags and neededImages are filled,
\* the images are listed
SyncStart ==
    /\ syPc = "start"
    /\ \E ok \in BOOLEAN :
         IF ok
         THEN /\ syNeeded' = DOMAIN syManifest
              /\ sySnap' = [id \in engImages |-> repoTagsOf(engTags, id)]
              /\ syTodo' = engImages
              /\ syPc' = "images"
              /\ UNCHANGED syErr
         ELSE syncFails /\ UNCHANGED <<syNeeded, sySnap, syTodo>>
    /\ UNCHANGED <<syManifest, syClean, engImages, engTags, eng0, syCur, syAdds, syRems>>
    /\ UNCHANGED <<mxVars, logVars, srVars, hrVars, fpVars, bcVars, rtVars, cfVars,
                   vnVars>>

\* lines 348-357 and 377-386: the next listed image; one the manifest maps
\* gets its tag difference computed, another is removed with Force iff clean
SyncImage ==
    /\ syPc = "images"
    /\ \E img \in syTodo :
         /\ syTodo' = syTodo \ {img}
         /\ IF img \in DOMAIN syManifest
            THEN /\ syNeeded' = syNeeded \ {img}
                 /\ syCur' = img
                 /\ syAdds' = listDiff(filterRepoTags(sySnap[img]), syManifest[img]).added
                 /\ syRems' = listDiff(filterRepoTags(sySnap[img]), syManifest[img]).removed
                 /\ syPc' = "adds"
                 /\ UNCHANGED <<engImages, engTags, syErr>>
            ELSE /\ UNCHANGED <<syNeeded, syCur, syAdds, syRems>>
                 /\ IF removesUnmapped(syClean)
                    THEN \E ok \in BOOLEAN :
                           IF ok /\ img \in engImages
                           THEN /\ engImages' = engImages \ {img}
                                /\ engTags' = [t \in RepoTagNames |->
                                                 IF engTags[t] = img THEN "none" ELSE engTags[t]]
                                /\ UNCHANGED <<syPc, syErr>>
                           ELSE syncFails /\ UNCHANGED <<engImages, engTags>>
                    ELSE UNCHANGED <<engImages, engTags, syPc, syErr>>
    /\ UNCHANGED <<syManifest, syClean, eng0, sySnap>>
    /\ UNCHANGED <<mxVars, logVars, srVars, hrVars, fpVars, bcVars, rtVars, cfVars,
                   vnVars>>

\* lines 358-362: the next added tag is applied
SyncAddTag ==
    /\ syPc = "adds"
    /\ syAdds # {}
    /\ tagImage(syCur, firstTag(syAdds))
    /\ syAdds' = syAdds \ {firstTag(syAdds)}
    /\ UNCHANGED <<syManifest, syClean, engImages, eng0, sySnap, syTodo, syNeeded,
                   syCur, syRems>>
    /\ UNCHANGED <<mxVars, logVars, srVars, hrVars, fpVars, bcVars, rtVars, cfVars,
                   vnVars>>

\* line 363: the added tags are done
SyncAddsDone ==
    /\ syPc = "adds"
    /\ syAdds = {}
    /\ syPc' = "removes"
    /\ UNCHANGED <<syManifest, syClean, engImages, engTags, eng0, sySnap, syTodo,
                   syNeeded, syCur, syAdds, syRems, syErr>>
    /\ UNCHANGED <<mxVars, logVars, srVars, hrVars, fpVars, bcVars, rtVars, cfVars,
                   vnVars>>

\* lines 363-376: the next removed tag; one that is no target of the manifest
\* is removed from the engine iff clean, and the engine deletes the image
\* with its last tag unless something else still holds the image
SyncRemoveTag ==
    /\ syPc = "removes"
    /\ syRems # {}
    /\ LET t == firstTag(syRems) IN
         /\ syRems' = syRems \ {t}
         /\ IF ~conflictsWithExpected(t, syManifest) /\ syClean
            THEN \E ok \in BOOLEAN :
                   IF ok /\ engTags[t] # "none"
                   THEN /\ engTags' = [engTags EXCEPT ![t] = "none"]
                        /\ IF tagsOf(engTags, engTags[t]) = {t}
                           THEN \E held \in BOOLEAN :
                                  engImages' = IF held THEN engImages
                                               ELSE engImages \ {engTags[t]}
                           ELSE UNCHANGED engImages
                        /\ UNCHANGED <<syPc, syErr>>
                   ELSE syncFails /\ UNCHANGED <<engImages, engTags>>
            ELSE UNCHANGED <<engImages, engTags, syPc, syErr>>
    /\ UNCHANGED <<syManifest, syClean, eng0, sySnap, syTodo, syNeeded, syCur, syAdds>>
    /\ UNCHANGED <<mxVars, logVars, srVars, hrVars, fpVars, bcVars, rtVars, cfVars,
                   vnVars>>

\* line 376: the removed tags are done, on to the next listed image
SyncRemovesDone ==
    /\ syPc = "removes"
    /\ syRems = {}
    /\ syPc' = "images"
    /\ UNCHANGED <<syManifest, syClean, engImages, engTags, eng0, sySnap, syTodo,
                   syNeeded, syCur, syAdds, syRems, syErr>>
    /\ UNCHANGED <<mxVars, logVars, srVars, hrVars, fpVars, bcVars, rtVars, cfVars,
                   vnVars>>

\* line 388: every listed image is visited
SyncImagesDone ==
    /\ syPc = "images"
    /\ syTodo = {}
    /\ syPc' = "needed"
    /\ UNCHANGED <<syManifest, syClean, engImages, engTags, eng0, sySnap, syTodo,
                   syNeeded, syCur, syAdds, syRems, syErr>>
    /\ UNCHANGED <<mxVars, logVars, srVars, hrVars, fpVars, bcVars, rtVars, cfVars,
                   vnVars>>

\* lines 390-400: the next needed image is inspected and, when the engine
\* does not hold it, loaded from its tarball
SyncNeeded ==
    /\ syPc = "needed"
    /\ \E id \in syNeeded :
         /\ syNeeded' = syNeeded \ {id}
         /\ syCur' = id
         /\ syAdds' = syManifest[id]
         /\ IF id \in engImages
            THEN /\ syPc' = "neededTags"
                 /\ UNCHANGED <<engImages, syErr>>
            ELSE \E ok \in BOOLEAN :
                   IF ok
                   THEN /\ engImages' = engImages \cup {id}
                        /\ syPc' = "neededTags"
                        /\ UNCHANGED syErr
                   ELSE syncFails /\ UNCHANGED engImages
    /\ UNCHANGED <<syManifest, syClean, engTags, eng0, sySnap, syTodo, syRems>>
    /\ UNCHANGED <<mxVars, logVars, srVars, hrVars, fpVars, bcVars, rtVars, cfVars,
                   vnVars>>

\* lines 401-405: the next tag of the needed image is applied
SyncNeededTag ==
    /\ syPc = "neededTags"
    /\ \E t \in syAdds :
         /\ tagImage(syCur, t)
         /\ syAdds' = syAdds \ {t}
    /\ UNCHANGED <<syManifest, syClean, engImages, eng0, sySnap, syTodo, syNeeded,
                   syCur, syRems>>
    /\ UNCHANGED <<mxVars, logVars, srVars, hrVars, fpVars, bcVars, rtVars, cfVars,
                   vnVars>>

\* line 405: the tags of the needed image are done
SyncNeededTagsDone ==
    /\ syPc = "neededTags"
    /\ syAdds = {}
    /\ syPc' = "needed"
    /\ UNCHANGED <<syManifest, syClean, engImages, engTags, eng0, sySnap, syTodo,
                   syNeeded, syCur, syAdds, syRems, syErr>>
    /\ UNCHANGED <<mxVars, logVars, srVars, hrVars, fpVars, bcVars, rtVars, cfVars,
                   vnVars>>

\* lines 406-408: no image is needed any more
SyncReturn ==
    /\ syPc = "needed"
    /\ syNeeded = {}
    /\ syPc' = "done"
    /\ UNCHANGED <<syManifest, syClean, engImages, engTags, eng0, sySnap, syTodo,
                   syNeeded, syCur, syAdds, syRems, syErr>>
    /\ UNCHANGED <<mxVars, logVars, srVars, hrVars, fpVars, bcVars, rtVars, cfVars,
                   vnVars>>

SyncNext ==
    \/ SyncStart
    \/ SyncImage
    \/ SyncAddTag
    \/ SyncAddsDone
    \/ SyncRemoveTag
    \/ SyncRemovesDone
    \/ SyncImagesDone
    \/ SyncNeeded
    \/ SyncNeededTag
    \/ SyncNeededTagsDone
    \/ SyncReturn

\* syncImages returned nil
syncSucceeded == syPc = "done" /\ ~syErr

\* each target tag is listed under one id
singleOwner(m) ==
    \A a, b \in DOMAIN m : a # b => m[a] \cap m[b] = {}

\* every entry of the manifest holds in the engine
manifestHolds ==
    \A id \in DOMAIN syManifest :
       /\ id \in engImages
       /\ \A t \in syManifest[id] : engTags[t] = id

\* the engine holds nothing but the manifest
nothingElse ==
    /\ engImages \subseteq DOMAIN syManifest
    /\ \A t \in RepoTagNames : engTags[t] # "none" => t \in allTags(syManifest)

ownerOf(m, t) == CHOOSE id \in DOMAIN m : t \in m[id]

\* the example of a stale tag: image i1 carries exactly x:1, the manifest maps
\* i1 to exactly y:1 and lists each target tag under one id, clean is set
staleTagExample ==
    /\ syClean
    /\ "i1" \in DOMAIN syManifest
    /\ syManifest["i1"] = {"y:1"}
    /\ singleOwner(syManifest)
    /\ "i1" \in eng0.images
    /\ tagsOf(eng0.tags, "i1") = {"x:1"}

\* C27: a tag on an image the manifest maps is taken from the engine only
\* when clean is set and the tag is a target of no manifest id; a tag that is
\* the target of another manifest id points to that id after a reconcile that
\* returned nil.  With i1 tagged x:1 only, the manifest mapping i1 to y:1 and
\* clean set, i1 is held throughout and is tagged exactly y:1 in the end.
C27_StaleTags ==
    /\ [][\A t \in RepoTagNames :
            (engTags[t] \in DOMAIN syManifest /\ engTags'[t] = "none") =>
               (syClean /\ t \notin allTags(syManifest))]_vars
    /\ []((syncSucceeded /\ singleOwner(syManifest)) =>
            \A t \in allTags(syManifest) : engTags[t] = ownerOf(syManifest, t))
    /\ [](staleTagExample =>
            /\ "i1" \in engImages
            /\ syncSucceeded => tagsOf(engTags, "i1") = {"y:1"})

\* the example has run to its end: x:1 is removed, y:1 points to i1; and a
\* tag of i1 that is the target of another manifest id was moved to it
C27_Witness ==
    /\ staleTagExample
    /\ syncSucceeded
    /\ engTags["x:1"] = "none"
    /\ tagsOf(engTags, "i1") = {"y:1"}

\* the images the step takes from the engine
removedNow == engImages \ engImages'

\* a manifest that lists at least one tag for every id and each target tag
\* under one id
plainManifest == savedByTagMap(syManifest) /\ singleOwner(syManifest)

\* C28: for a manifest that lists at least one tag for every id and each
\* target tag under one id, an image is taken from the engine only when clean
\* is set and the manifest does not mention it; for any manifest, without
\* clean every image held before the reconcile is held and every tag that is
\* no manifest target points where it did.
C28_Frame ==
    /\ [][\A id \in removedNow :
            /\ syClean
            /\ plainManifest => id \notin DOMAIN syManifest]_vars
    /\ [](~syClean =>
            /\ eng0.images \subseteq engImages
            /\ \A t \in RepoTagNames \ allTags(syManifest) :
                  engTags[t] = eng0.tags[t])
    /\ []((syClean /\ plainManifest) =>
            (eng0.images \cap DOMAIN syManifest) \subseteq engImages)

\* C28 as stated, for every manifest: an image is taken from the engine only
\* when clean is set and the manifest does not mention it
C28_FrameAnyManifest ==
    [][\A id \in removedNow : syClean /\ id \notin DOMAIN syManifest]_vars

\* a reconcile without clean returned nil: it moved a tag, and an image the
\* manifest does not mention and a tag that is no manifest target are as
\* they were
C28_Witness ==
    /\ syncSucceeded
    /\ ~syClean
    /\ \E id \in eng0.images \ DOMAIN syManifest :
          /\ id \in engImages
          /\ tagsOf(eng0.tags, id) # {}
    /\ \E t \in RepoTagNames \ allTags(syManifest) :
          /\ eng0.tags[t] \in DOMAIN syManifest
          /\ engTags[t] = eng0.tags[t]
    /\ \E t \in allTags(syManifest) :
          eng0.tags[t] # "none" /\ engTags[t] # eng0.tags[t]

(***************************************************************************)
(* The host runner's Run: one container per instance, suite by suite.       *)
(* Instances are numbered in declaration order; instance i is named i.      *)
(***************************************************************************)
\* the most instances of a configuration
MaxInstances == 5

\* the exit codes a container may end with
ExitCodes == {0, 1, 137}

\* line 235
nocache == FALSE

\* line 236
contName(i) == <<"golem-", i>>

\* line 274
volumeName(i) == <<contName(i), "-graph">>

\* suite.DockerInDocker of the suite that instance i belongs to
instanceDind(i) == IF i <= hrConf.k THEN hrConf.dind1 ELSE hrConf.dind2

\* (mutant: only exit codes above one count as failed)
testFailedAboveOne(code) == code > 1

\* line 351
testFailed(code) == code > 0

HostInit ==
    /\ hrConf \in {c \in [n : 0..MaxInstances, k : 0..MaxInstances,
                         dind1 : BOOLEAN, dind2 : BOOLEAN] : c.k <= c.n}
    /\ hrPc = "loop"
    /\ hrIdx = 1
    /\ failedTests = 0
    /\ runTests = 0
    /\ hrRan = << >>
    /\ hrResult = "pending"
    /\ hrMsg = << >>
    /\ hostContainers \in SUBSET {contName(1), contName(2)}
    /\ hostVolumes \in SUBSET {volumeName(1)}

\* Run is not called
HostIdle ==
    /\ hrConf = [n |-> 0, k |-> 0, dind1 |-> FALSE, dind2 |-> FALSE]
    /\ hrPc = "idle"
    /\ hrIdx = 1
    /\ failedTests = 0
    /\ runTests = 0
    /\ hrRan = << >>
    /\ hrResult = "pending"
    /\ hrMsg = << >>
    /\ hostContainers = {}
    /\ hostVolumes = {}

\* an engine call failed: Run returns its error
engineFails ==
    /\ hrPc' = "done"
    /\ hrResult' = "engineError"
    /\ UNCHANGED <<hrIdx, failedTests, runTests, hrRan>>

\* lines 233-355: the body of the loops for one instance.  Under dind an
\* existing container of the name is removed and the graph volume is found or
\* created; the container is created (the engine refuses a name in use),
\* started, attached to and inspected; its exit code is tallied.
RunInstance ==
    /\ hrPc = "loop"
    /\ hrIdx <= hrConf.n
    /\ LET name == contName(hrIdx)
           dind == instanceDind(hrIdx)
           removed == IF dind THEN hostContainers \ {name} ELSE hostContainers
           mounted == IF dind THEN hostVolumes \cup {volumeName(hrIdx)} ELSE hostVolumes
       IN \E out \in {"removeErr", "volumeErr", "createErr", "nameInUse", "runErr",
                       "exited"} :
            CASE out = "removeErr" ->
                   /\ dind /\ name \in hostContainers
                   /\ engineFails
                   /\ UNCHANGED <<hostContainers, hostVolumes, hrMsg>>
              [] out = "volumeErr" ->
                   /\ dind
                   /\ engineFails
                   /\ hostContainers' = removed
                   /\ UNCHANGED <<hostVolumes, hrMsg>>
              [] out = "createErr" ->
                   /\ engineFails
                   /\ hostContainers' = removed
                   /\ hostVolumes' = mounted
                   /\ UNCHANGED hrMsg
              [] out = "nameInUse" ->
                   /\ name \in removed
                   /\ engineFails
                   /\ hrMsg' = <<"error creating container: ", name, " in use">>
                   /\ hostContainers' = removed
                   /\ hostVolumes' = mounted
              [] out = "runErr" ->
                   /\ name \notin removed
                   /\ engineFails
                   /\ hostContainers' = removed \cup {name}
                   /\ hostVolumes' = mounted
                   /\ UNCHANGED hrMsg
              [] out = "exited" ->
                   /\ name \notin removed
                   /\ hostContainers' = removed \cup {name}
                   /\ hostVolumes' = mounted
                   /\ UNCHANGED hrMsg
                   /\ \E code \in ExitCodes :
                        /\ hrRan' = Append(hrRan, [instance |-> hrIdx, code |-> code])
                        /\ runTests' = runTests + 1
                        /\ failedTests' = IF testFailed(code) THEN failedTests + 1
                                          ELSE failedTests
                   /\ hrIdx' = hrIdx + 1
                   /\ UNCHANGED <<hrPc, hrResult>>
    /\ UNCHANGED hrConf
    /\ UNCHANGED <<mxVars, logVars, srVars, syVars, fpVars, bcVars, rtVars, cfVars,
                   vnVars>>

\* lines 358-369: every instance ran; the failures decide the result
RunReturn ==
    /\ hrPc = "loop"
    /\ hrIdx > hrConf.n
    /\ hrPc' = "done"
    /\ IF failedTests > 0
       THEN /\ hrResult' = "testFailure"
            /\ hrMsg' = <<"test failure: ", failedTests, " of ", runTests, " tests failed">>
       ELSE /\ hrResult' = "nil"
            /\ UNCHANGED hrMsg
    /\ UNCHANGED <<hrConf, hrIdx, failedTests, runTests, hrRan, hostContainers, hostVolumes>>
    /\ UNCHANGED <<mxVars, logVars, srVars, syVars, fpVars, bcVars, rtVars, cfVars,
                   vnVars>>

HostNext ==
    \/ RunInstance
    \/ RunReturn

\* the instances that ran and exited with a non-zero code
exitedNonZero == {i \in 1..Len(hrRan) : hrRan[i].code # 0}

\* every instance ran, one after the other in declaration order
ranAllInOrder ==
    /\ Len(hrRan) = hrConf.n
    /\ \A i \in 1..Len(hrRan) : hrRan[i].instance = i

\* the result of Run as C10 states it
resultAsClaimed ==
    /\ ranAllInOrder
    /\ (hrResult # "nil") <=> (exitedNonZero # {})
    /\ hrResult # "nil" =>
          hrMsg = <<"test failure: ", Cardinality(exitedNonZero), " of ", hrConf.n,
                    " tests failed">>

failedOnName ==
    /\ hrPc = "done"
    /\ hrResult = "engineError"
    /\ Len(hrMsg) = 3
    /\ hrMsg[1] = "error creating container: "

\* C29: whether or not the suite is docker-in-docker, a container that holds
\* the name golem-<instance> when the instance is run is removed before the
\* instance's container is created, so Run never fails because the name is in
\* use.
C29_NameFreed == ~failedOnName

(***************************************************************************)
(* BuildBaseImage: the fingerprint.  A string is the sequence of its        *)
(* characters, so that the text written to the digester is the text the     *)
(* code writes.  The digest is taken as collision free: it is represented   *)
(* by its algorithm and the text that was hashed.                           *)
(***************************************************************************)
\* the most extra images, and the most custom images, of a configuration
MaxListed == 2

\* the byte values of the characters that occur, for sort.Strings
Ascii ==
    [c \in {"\n", " ", "-", ".", "1", "2", ":", "A", "B", "C", "E", "I", "N", "O",
            "R", "S", "V", "_", "a", "b", "c", "e", "i", "n", "o", "r", "s"} |->
       CASE c = "\n" -> 10 [] c = " " -> 32 [] c = "-" -> 45 [] c = "." -> 46
         [] c = "1" -> 49 [] c = "2" -> 50 [] c = ":" -> 58
         [] c = "A" -> 65 [] c = "B" -> 66 [] c = "C" -> 67 [] c = "E" -> 69
         [] c = "I" -> 73 [] c = "N" -> 78 [] c = "O" -> 79 [] c = "R" -> 82
         [] c = "S" -> 83 [] c = "V" -> 86 [] c = "_" -> 95
         [] c = "a" -> 97 [] c = "b" -> 98 [] c = "c" -> 99 [] c = "e" -> 101
         [] c = "i" -> 105 [] c = "n" -> 110 [] c = "o" -> 111 [] c = "r" -> 114
         [] c = "s" -> 115]

\* strings.ToUpper on one character
toUpper(c) ==
    CASE c = "a" -> "A" [] c = "b" -> "B" [] c = "c" -> "C" [] c = "e" -> "E"
      [] c = "i" -> "I" [] c = "n" -> "N" [] c = "o" -> "O" [] c = "r" -> "R"
      [] c = "s" -> "S" [] OTHER -> c

\* the image ids, the references and the version tokens of the configurations
FpIDs == {<<"i", "1">>, <<"i", "2">>}
ExtraRefs == {<<"a", ":", "1">>, <<"b", "-", "c", ":", "1">>}
TargetRefs == {<<"a", ":", "1">>, <<"a", ":", "2">>, <<"b", "-", "c", ":", "1">>}
VersionTokens == {<<"1">>, <<"2">>}
HashVersions == {<<"1">>, <<"2">>}

\* line 574
hashVersion == <<"1">>

\* strings.Compare(a, b) < 0
stringLess(a, b) ==
    LET n == IF Len(a) < Len(b) THEN Len(a) ELSE Len(b)
        diff == {i \in 1..n : a[i] # b[i]}
    IN IF diff = {} THEN Len(a) < Len(b)
       ELSE LET i == CHOOSE j \in diff : \A k \in diff : j <= k
            IN Ascii[a[i]] < Ascii[b[i]]

RECURSIVE insertSorted(_, _)
\* the sorted list l with the string x put in its place
insertSorted(l, x) ==
    IF l = << >> THEN <<x>>
    ELSE IF stringLess(x, Head(l)) THEN <<x>> \o l
    ELSE <<Head(l)>> \o insertSorted(Tail(l), x)

\* (mutant: the list is left in the order it has)
sortNothing(l) == l

RECURSIVE sortStrings(_)
\* sort.Strings
sortStrings(l) ==
    IF l = << >> THEN << >>
    ELSE insertSorted(sortStrings(Tail(l)), Head(l))

RECURSIVE joinStrings(_, _)
\* strings.Join
joinStrings(l, sep) ==
    IF l = << >> THEN << >>
    ELSE IF Len(l) = 1 THEN l[1]
    ELSE l[1] \o sep \o joinStrings(Tail(l), sep)

\* reference Name(): the reference without its tag
refName(ref) ==
    LET colons == {i \in 1..Len(ref) : ref[i] = ":"}
        last == CHOOSE i \in colons : \A j \in colons : j <= i
    IN SubSeq(ref, 1, last - 1)

\* lines 577-582
nameToEnv(name) ==
    [i \in 1..Len(name) |->
       IF name[i] \in {".", "-", ":"} THEN "_" ELSE toUpper(name[i])]

\* lines 597-621: tags, the extra images first, then the custom images
buildTags(conf) ==
    [i \in 1..Len(conf.ExtraImages) |->
       [Tag |-> conf.ExtraImages[i].Ref, Image |-> conf.ExtraImages[i].ID]]
    \o [i \in 1..Len(conf.CustomImages) |->
       [Tag |-> conf.CustomImages[i].Target, Image |-> conf.CustomImages[i].Source]]

\* line 618: envs
buildEnvs(conf) ==
    [i \in 1..Len(conf.CustomImages) |->
       nameToEnv(refName(conf.CustomImages[i].Target))
       \o <<"_", "V", "E", "R", "S", "I", "O", "N", " ">>
       \o conf.CustomImages[i].Version]

\* lines 629-634: imageTags[t], the image of the last entry of tags with tag t
imageTagOf(tags, t) ==
    LET at == {i \in 1..Len(tags) : tags[i].Tag = t}
    IN tags[CHOOSE i \in at : \A j \in at : j <= i].Image

RECURSIVE tagLines(_, _)
\* lines 636-638: one line per entry of the sorted allTags
tagLines(tags, sorted) ==
    IF sorted = << >> THEN << >>
    ELSE Head(sorted) \o <<" ">> \o imageTagOf(tags, Head(sorted)) \o <<"\n">>
         \o tagLines(tags, Tail(sorted))

\* lines 623-646: everything written to the digester
hashInput(conf, hv) ==
    <<"V", "e", "r", "s", "i", "o", "n", ":", " ">> \o hv \o <<"\n", "\n">>
    \o conf.Base \o <<"\n", "\n">>
    \o tagLines(buildTags(conf),
                sortStrings([i \in 1..Len(buildTags(conf)) |-> buildTags(conf)[i].Tag]))
    \o <<"\n">>
    \o <<"\n">>
    \o joinStrings(sortStrings(buildEnvs(conf)), <<" ">>) \o <<"\n">>

\* line 648: imageHash
imageHash(conf, hv) == <<"sha256", hashInput(conf, hv)>>

\* the lists without a repeated element, of at most MaxListed elements
listsOf(S) ==
    {l \in SeqsUpTo(S, MaxListed) : \A i, j \in 1..Len(l) : l[i] = l[j] => i = j}

\* multiResolver.Images: no two extra images have the same reference
extraLists ==
    UNION {[1..Len(l) -> [Ref : Range(l), ID : FpIDs]] \cap
             {e \in [1..Len(l) -> [Ref : Range(l), ID : FpIDs]] :
                 \A i \in 1..Len(l) : e[i].Ref = l[i]} : l \in listsOf(ExtraRefs)}

\* a row of the matrix: no two custom images have the same target
customLists ==
    UNION {{c \in [1..Len(l) -> [Source : FpIDs, Target : Range(l), Version : VersionTokens]] :
               \A i \in 1..Len(l) : c[i].Target = l[i]} : l \in listsOf(TargetRefs)}

\* the permutations of the elements of a list
permutationsOf(l) ==
    {[i \in 1..Len(l) |-> l[p[i]]] :
        p \in {q \in [1..Len(l) -> 1..Len(l)] : \A i, j \in 1..Len(l) : q[i] = q[j] => i = j}}

noEdit == [conf |-> << >>, hashVer |-> << >>]

FingerprintInit ==
    /\ bbConf \in [Base : FpIDs, ExtraImages : extraLists, CustomImages : customLists]
    /\ hashVer = hashVersion
    /\ fpPrev = noEdit
    /\ fpKind = "none"

\* no base image is being configured
FingerprintIdle ==
    /\ bbConf = [Base |-> << >>, ExtraImages |-> << >>, CustomImages |-> << >>]
    /\ hashVer = hashVersion
    /\ fpPrev = noEdit
    /\ fpKind = "idle"

\* the configuration is replaced by conf, the edit is recorded; one edit is
\* made to a configuration
editTo(conf, kind) ==
    /\ fpKind = "none"
    /\ conf # bbConf
    /\ bbConf' = conf
    /\ fpPrev' = [conf |-> bbConf, hashVer |-> hashVer]
    /\ fpKind' = kind
    /\ UNCHANGED hashVer
    /\ UNCHANGED <<mxVars, logVars, srVars, syVars, hrVars, bcVars, rtVars, cfVars,
                   vnVars>>

\* multiResolver.Images ranges over a map, and the configuration may list the
\* custom images in another order: the same images in another order
Reorder ==
    \E ex \in permutationsOf(bbConf.ExtraImages), cu \in permutationsOf(bbConf.CustomImages) :
       editTo([bbConf EXCEPT !.ExtraImages = ex, !.CustomImages = cu], "reorder")

\* the base reference resolves to another image
ChangeBaseID ==
    \E id \in FpIDs : editTo([bbConf EXCEPT !.Base = id], "base")

\* one extra image resolves to another image
ChangeExtraID ==
    \E i \in 1..Len(bbConf.ExtraImages), id \in FpIDs :
       editTo([bbConf EXCEPT !.ExtraImages[i].ID = id], "source")

\* the source of one custom image resolves to another image
ChangeCustomSource ==
    \E i \in 1..Len(bbConf.CustomImages), id \in FpIDs :
       editTo([bbConf EXCEPT !.CustomImages[i].Source = id], "source")

\* one extra image gets another reference, none that another extra image has
ChangeExtraRef ==
    \E i \in 1..Len(bbConf.ExtraImages), r \in ExtraRefs :
       /\ \A j \in 1..Len(bbConf.ExtraImages) : bbConf.ExtraImages[j].Ref # r
       /\ editTo([bbConf EXCEPT !.ExtraImages[i].Ref = r], "target")

\* one custom image gets another target, none that another custom image has
ChangeCustomTarget ==
    \E i \in 1..Len(bbConf.CustomImages), r \in TargetRefs :
       /\ \A j \in 1..Len(bbConf.CustomImages) : bbConf.CustomImages[j].Target # r
       /\ editTo([bbConf EXCEPT !.CustomImages[i].Target = r], "target")

\* one custom image gets another version token
ChangeCustomVersion ==
    \E i \in 1..Len(bbConf.CustomImages), v \in VersionTokens :
       editTo([bbConf EXCEPT !.CustomImages[i].Version = v], "version")

\* the binary is built with another hashVersion
ChangeHashVersion ==
    /\ fpKind = "none"
    /\ \E hv \in HashVersions :
         /\ hv # hashVer
         /\ hashVer' = hv
    /\ fpPrev' = [conf |-> bbConf, hashVer |-> hashVer]
    /\ fpKind' = "hashVersion"
    /\ UNCHANGED bbConf
    /\ UNCHANGED <<mxVars, logVars, srVars, syVars, hrVars, bcVars, rtVars, cfVars,
                   vnVars>>

FingerprintNext ==
    \/ Reorder
    \/ ChangeBaseID
    \/ ChangeExtraID
    \/ ChangeCustomSource
    \/ ChangeExtraRef
    \/ ChangeCustomTarget
    \/ ChangeCustomVersion
    \/ ChangeHashVersion

\* the fingerprint is what it was before the last edit
sameFingerprint ==
    imageHash(bbConf, hashVer) = imageHash(fpPrev.conf, fpPrev.hashVer)

\* C6: two configurations that resolve to the same image ids and differ only
\* in the order of the extra images or of the custom images have equal
\* fingerprints.
C6_OrderIndependent ==
    fpKind = "reorder" => sameFingerprint

\* two extra images and two custom images, both lists in the other order
C6_Witness ==
    /\ fpKind = "reorder"
    /\ Len(bbConf.ExtraImages) = 2
    /\ Len(bbConf.CustomImages) = 2
    /\ bbConf.ExtraImages # fpPrev.conf.ExtraImages
    /\ bbConf.CustomImages # fpPrev.conf.CustomImages
    /\ bbConf.CustomImages[1].Source # bbConf.CustomImages[2].Source
    /\ bbConf.ExtraImages[1].ID # bbConf.ExtraImages[2].ID

\* C7: with everything else fixed, another base image id, another source
\* image id of an extra or custom image, another target reference, another
\* version token or another hashVersion gives another hashed input, hence
\* another fingerprint.
C7_Sensitive ==
    fpKind \in {"base", "source", "target", "version", "hashVersion"} => ~sameFingerprint

(***************************************************************************)
(* BuildBaseImage: the image cache and the Builder.  The base image of one  *)
(* configuration is built twice in succession against the same cache; in    *)
(* between the engine may drop images.                                       *)
(***************************************************************************)
\* the ids the Builder may produce
BuiltIDs == {<<"b", "1">>, <<"b", "2">>}

Rounds == {"first", "second"}

\* the configurations that are built
BuildConfs ==
    {c \in [Base : FpIDs, ExtraImages : extraLists, CustomImages : customLists] :
        /\ c.ExtraImages = << >>
        /\ Len(c.CustomImages) = 1
        /\ c.CustomImages[1].Source = c.Base}

\* what a cache file may hold before the first build
StoredContents == {<<"b", "1">>, <<"b", "1", "\n">>, << >>}

whiteSpace == {" ", "\n"}

RECURSIVE trimLeft(_)
trimLeft(b) ==
    IF b # << >> /\ Head(b) \in whiteSpace THEN trimLeft(Tail(b)) ELSE b

RECURSIVE trimRight(_)
trimRight(b) ==
    IF b # << >> /\ b[Len(b)] \in whiteSpace THEN trimRight(SubSeq(b, 1, Len(b) - 1)) ELSE b

\* strings.TrimSpace
TrimSpace(b) == trimRight(trimLeft(b))

\* lines 511-525: GetImage; the file must exist and be read
GetImage(files, dgst) ==
    IF dgst \in DOMAIN files
    THEN [id |-> TrimSpace(files[dgst]), err |-> FALSE]
    ELSE [id |-> << >>, err |-> TRUE]

\* a lookup that returns the cached id without asking the engine
cachedUnchecked(got, held) == ~got.err

\* (mutant: the cache is never consulted)
cachedNever(got, held) == FALSE

\* lines 651-658: the cache has an id and the engine resolves it
cachedLocally(got, held) == ~got.err /\ got.id \in held

\* the proper prefixes of a string: what an interrupted write leaves
properPrefixes(b) == {SubSeq(b, 1, k) : k \in 0..(Len(b) - 1)}

\* what a GetImage that finds no file, or a build that never looked, has seen
absent == <<"absent">>

\* the record of one call of BuildBaseImage: what it returned, the calls of the
\* Builder and of SaveImage, the file GetImage read (seen), whether the id read
\* did not resolve (stale), the id the Builder produced (built), the file
\* before SaveImage (prior) and whether the id returned resolved (live)
newTrace == [ret |-> << >>, err |-> "pending", builder |-> 0, saves |-> 0,
             saved |-> "none", read |-> "none", seen |-> absent,
             stale |-> FALSE, built |-> << >>, prior |-> absent, live |-> FALSE]

BuildInit ==
    /\ bbConf \in BuildConfs
    /\ hashVer = hashVersion
    /\ fpPrev = noEdit
    /\ fpKind = "build"
    /\ \/ cacheFiles = << >>
       \/ \E b \in StoredContents : cacheFiles = (imageHash(bbConf, hashVer) :> b)
    /\ builtImages \in SUBSET BuiltIDs
    /\ bbPc = "ensure"
    /\ bbRound = "first"
    /\ bbNew = << >>
    /\ bbTrace = [r \in Rounds |-> newTrace]
    /\ bbResolves = FALSE

\* no base image is being built
BuildIdle ==
    /\ cacheFiles = << >>
    /\ builtImages = {}
    /\ bbPc = "idle"
    /\ bbRound = "first"
    /\ bbNew = << >>
    /\ bbTrace = [r \in Rounds |-> newTrace]
    /\ bbResolves = FALSE

\* BuildBaseImage returns an error before the Builder ran
buildFails ==
    /\ bbPc' = "returned"
    /\ bbTrace' = [bbTrace EXCEPT ![bbRound].err = "error"]

\* lines 592-621: ensureImage for the base, the extra and the custom images
BuildEnsure ==
    /\ bbPc = "ensure"
    /\ \E ok \in BOOLEAN :
         IF ok THEN bbPc' = "lookup" /\ UNCHANGED bbTrace
         ELSE buildFails
    /\ UNCHANGED <<cacheFiles, builtImages, bbRound, bbNew, bbResolves>>
    /\ UNCHANGED <<mxVars, logVars, srVars, syVars, hrVars, fpVars, rtVars, cfVars,
                   vnVars>>

\* lines 648-662: the fingerprint is looked up in the cache; an id the engine
\* resolves is returned, anything else leads to a build
BuildLookup ==
    /\ bbPc = "lookup"
    /\ \E readOk \in BOOLEAN :
         LET dgst == imageHash(bbConf, hashVer)
             got == IF readOk THEN GetImage(cacheFiles, dgst)
                    ELSE [id |-> << >>, err |-> TRUE]
             raw == IF readOk /\ dgst \in DOMAIN cacheFiles THEN cacheFiles[dgst]
                    ELSE absent
             unresolved == ~got.err /\ got.id \notin builtImages
         IN IF cachedLocally(got, builtImages)
            THEN /\ bbPc' = "returned"
                 /\ bbTrace' = [bbTrace EXCEPT ![bbRound].ret = got.id,
                                               ![bbRound].err = "nil",
                                               ![bbRound].read = "hit",
                                               ![bbRound].seen = raw,
                                               ![bbRound].stale = unresolved,
                                               ![bbRound].live = got.id \in builtImages]
            ELSE /\ bbPc' = "build"
                 /\ bbTrace' = [bbTrace EXCEPT ![bbRound].read =
                                   IF readOk THEN "miss" ELSE "error",
                                               ![bbRound].seen = raw,
                                               ![bbRound].stale = unresolved]
    /\ UNCHANGED <<cacheFiles, builtImages, bbRound, bbNew, bbResolves>>
    /\ UNCHANGED <<mxVars, logVars, srVars, syVars, hrVars, fpVars, rtVars, cfVars,
                   vnVars>>

\* lines 664-726: the build context is written, the Builder runs
BuildRun ==
    /\ bbPc = "build"
    /\ \E out \in {"contextErr", "builderErr", "built"} :
         CASE out = "contextErr" ->
                /\ buildFails
                /\ UNCHANGED <<builtImages, bbNew>>
           [] out = "builderErr" ->
                /\ bbPc' = "returned"
                /\ bbTrace' = [bbTrace EXCEPT ![bbRound].err = "error",
                                              ![bbRound].builder = @ + 1]
                /\ UNCHANGED <<builtImages, bbNew>>
           [] out = "built" ->
                /\ \E id \in BuiltIDs :
                     /\ bbNew' = id
                     /\ builtImages' = builtImages \cup {id}
                     /\ bbTrace' = [bbTrace EXCEPT ![bbRound].builder = @ + 1,
                                                   ![bbRound].built = id]
                /\ bbPc' = "save"
    /\ UNCHANGED <<cacheFiles, bbRound, bbResolves>>
    /\ UNCHANGED <<mxVars, logVars, srVars, syVars, hrVars, fpVars, rtVars, cfVars,
                   vnVars>>

\* a BuildBaseImage that returns the error of SaveImage
saveReturnsErr(out) == IF out = "ok" THEN "nil" ELSE "error"

\* lines 728-732: the error of SaveImage is logged, BuildBaseImage returns nil
saveReturns(out) == "nil"

\* lines 728-732 and 529-545: SaveImage; its error is logged, the id returned.
\* os.Create empties the file before the id is written.
BuildSave ==
    /\ bbPc = "save"
    /\ LET dgst == imageHash(bbConf, hashVer) IN
       \E out \in {"ok", "createErr", "writeErr"} :
         /\ CASE out = "ok" ->
                   cacheFiles' = [d \in DOMAIN cacheFiles \cup {dgst} |->
                                    IF d = dgst THEN bbNew ELSE cacheFiles[d]]
              [] out = "createErr" -> UNCHANGED cacheFiles
              [] out = "writeErr" ->
                   \E part \in properPrefixes(bbNew) :
                      cacheFiles' = [d \in DOMAIN cacheFiles \cup {dgst} |->
                                       IF d = dgst THEN part ELSE cacheFiles[d]]
         /\ bbTrace' = [bbTrace EXCEPT ![bbRound].ret = bbNew,
                                       ![bbRound].err = saveReturns(out),
                                       ![bbRound].saves = @ + 1,
                                       ![bbRound].saved = out,
                                       ![bbRound].prior =
                                          IF dgst \in DOMAIN cacheFiles
                                          THEN cacheFiles[dgst] ELSE absent,
                                       ![bbRound].live = bbNew \in builtImages]
    /\ bbPc' = "returned"
    /\ UNCHANGED <<builtImages, bbRound, bbNew, bbResolves>>
    /\ UNCHANGED <<mxVars, logVars, srVars, syVars, hrVars, fpVars, rtVars, cfVars,
                   vnVars>>

\* between the builds the engine drops an image
ImageDropped ==
    /\ bbPc = "returned"
    /\ bbRound = "first"
    /\ \E id \in builtImages : builtImages' = builtImages \ {id}
    /\ UNCHANGED <<cacheFiles, bbPc, bbRound, bbNew, bbTrace, bbResolves>>
    /\ UNCHANGED <<mxVars, logVars, srVars, syVars, hrVars, fpVars, rtVars, cfVars,
                   vnVars>>

\* the second build of the same configuration begins
BuildAgain ==
    /\ bbPc = "returned"
    /\ bbRound = "first"
    /\ bbRound' = "second"
    /\ bbPc' = "ensure"
    /\ bbResolves' = (bbTrace["first"].err = "nil" /\ bbTrace["first"].ret \in builtImages)
    /\ UNCHANGED <<cacheFiles, builtImages, bbNew, bbTrace>>
    /\ UNCHANGED <<mxVars, logVars, srVars, syVars, hrVars, fpVars, rtVars, cfVars,
                   vnVars>>

\* the second build returned
BuildsDone ==
    /\ bbPc = "returned"
    /\ bbRound = "second"
    /\ bbPc' = "done"
    /\ UNCHANGED <<cacheFiles, builtImages, bbRound, bbNew, bbTrace, bbResolves>>
    /\ UNCHANGED <<mxVars, logVars, srVars, syVars, hrVars, fpVars, rtVars, cfVars,
                   vnVars>>

BuildNext ==
    \/ BuildEnsure
    \/ BuildLookup
    \/ BuildRun
    \/ BuildSave
    \/ ImageDropped
    \/ BuildAgain
    \/ BuildsDone

\* both builds returned an image, and the image of the first still resolved
\* when the second began
builtTwice ==
    /\ bbPc = "done"
    /\ bbTrace["first"].err = "nil"
    /\ bbTrace["second"].err = "nil"
    /\ bbResolves

\* the second build returned the id of the first and ran no Builder
secondFromCache ==
    /\ bbTrace["second"].ret = bbTrace["first"].ret
    /\ bbTrace["second"].builder = 0

cacheWrites == bbTrace["first"].saves + bbTrace["second"].saves

cachedNow == GetImage(cacheFiles, imageHash(bbConf, hashVer))

\* C24: a build that finds in the cache an id the engine does not resolve is
\* not served from the cache; when it returns without error it has run the
\* Builder once and returns the Builder's id, which resolves; and when its
\* cache write succeeded the cache holds that id for the same fingerprint.
C24_StaleNotReturned ==
    \A r \in Rounds :
       bbTrace[r].stale =>
          /\ bbTrace[r].read # "hit"
          /\ bbTrace[r].err = "nil" =>
                /\ bbTrace[r].builder = 1
                /\ bbTrace[r].saves = 1
                /\ bbTrace[r].ret = bbTrace[r].built
                /\ bbTrace[r].ret \in BuiltIDs
                /\ bbTrace[r].live
          /\ (bbTrace[r].saved = "ok" /\ bbRound = r /\ bbPc = "returned") =>
                (~cachedNow.err /\ cachedNow.id = bbTrace[r].ret)

\* the engine dropped the image of the first build; the second build found
\* the stale id in the cache, ran the Builder and stored the new id
C24_Witness ==
    /\ bbPc = "done"
    /\ bbTrace["first"].err = "nil"
    /\ bbTrace["second"].stale
    /\ bbTrace["second"].seen = bbTrace["first"].ret
    /\ bbTrace["second"].err = "nil"
    /\ bbTrace["second"].saved = "ok"
    /\ bbTrace["second"].ret # bbTrace["first"].ret
    /\ cachedNow.id = bbTrace["second"].ret

\* C25: a build whose Builder succeeded and whose cache write failed returns
\* the id the Builder produced and no error.
C25_SaveFailureIgnored ==
    \A r \in Rounds :
       bbTrace[r].saved \in {"createErr", "writeErr"} =>
          /\ bbTrace[r].err = "nil"
          /\ bbTrace[r].builder = 1
          /\ bbTrace[r].ret = bbTrace[r].built
          /\ bbTrace[r].ret \in BuiltIDs

\* the cache write of the first build failed and the build returned its image
C25_Witness ==
    /\ bbRound = "first"
    /\ bbPc = "returned"
    /\ bbTrace["first"].saved = "writeErr"
    /\ bbTrace["first"].err = "nil"
    /\ bbTrace["first"].ret = bbNew
    /\ bbNew \in builtImages

\* C26: after the first build has put its entry, what the GetImage of the
\* second build reads from the entry's file is what the file held before the
\* put or the complete id that was put.
C26_AtomicEntry ==
    (bbTrace["first"].saves = 1 /\ bbTrace["second"].seen # absent) =>
       bbTrace["second"].seen \in {bbTrace["first"].prior, bbTrace["first"].built}

(***************************************************************************)
(* LogRouter: the stream table, the forwarders and the coordinator task     *)
(* route().  Client tasks call RouteLogCapturer, AddForwarder, AddCapturer  *)
(* and Shutdown, one call each; a call is its section under lr.l and, when  *)
(* it does not fail, its deferred send to the coordinator.  The channels    *)
(* are unbuffered: a send completes when the coordinator receives.  A write *)
(* to a stream is handed to every tap the stream has at that moment (the    *)
(* readers of the router's taps keep reading).                              *)
(***************************************************************************)
\* the number of writes to the streams of a behaviour
MaxRouted == 2

Clients == {"k1", "k2", "k3"}
Names == {"a", "b"}
Channels == {"stdout", "stderr"}

\* the calls a client task can make; the forwarder or capturer a task passes
\* is its own, named after the task
Ops == [op : {"RouteLogCapturer", "AddCapturer"}, name : Names]
         \cup [op : {"AddForwarder", "Shutdown"}, name : {""}]

noOp == [op |-> "", name |-> ""]

noRet == [tapper |-> 0, err |-> "pending"]

\* NewLogRouter, lines 221-234: an empty router whose coordinator has started;
\* the client tasks ks are about to make their calls
RouterInit(ks) ==
    /\ logStreams = [n \in Names |-> 0]
    /\ forwards = << >>
    /\ rtClosed = FALSE
    /\ tappers = 0
    /\ sinks = [n \in Names |-> [made |-> 0, closed |-> FALSE]]
    /\ coPc = "eval"
    /\ coArg = noOp
    /\ coRefs = FALSE
    /\ kPc = [k \in Clients |-> IF k \in ks THEN "idle" ELSE "none"]
    /\ kOp = [k \in Clients |-> noOp]
    /\ kRef = [k \in Clients |-> FALSE]
    /\ kRet = [k \in Clients |-> noRet]
    /\ kMark = [k \in Clients |-> [begin |-> 0, end |-> 0]]
    /\ rtTaps = {}
    /\ rtWrites = << >>
    /\ started = [f \in Clients, n \in Names, c \in Channels |-> 0]
    /\ stopped = [f \in Clients, n \in Names, c \in Channels |-> 0]

\* no router exists: no coordinator, no client
RouterIdle ==
    /\ logStreams = [n \in Names |-> 0]
    /\ forwards = << >>
    /\ rtClosed = FALSE
    /\ tappers = 0
    /\ sinks = [n \in Names |-> [made |-> 0, closed |-> FALSE]]
    /\ coPc = "none"
    /\ coArg = noOp
    /\ coRefs = FALSE
    /\ kPc = [k \in Clients |-> "none"]
    /\ kOp = [k \in Clients |-> noOp]
    /\ kRef = [k \in Clients |-> FALSE]
    /\ kRet = [k \in Clients |-> noRet]
    /\ kMark = [k \in Clients |-> [begin |-> 0, end |-> 0]]
    /\ rtTaps = {}
    /\ rtWrites = << >>
    /\ started = [f \in Clients, n \in Names, c \in Channels |-> 0]
    /\ stopped = [f \in Clients, n \in Names, c \in Channels |-> 0]

\* no stream is seen
streamNamesNone == {}

\* the names of the streams in lr.logStreams
streamNames == {n \in Names : logStreams[n] # 0}

\* addTap: a fresh tap of stream name, channel c, for owner o; it is handed
\* the writes made from now on
\* (mutant: the tap starts with everything written to the stream so far)
addTapReplay(o, name, c, seq) ==
    [owner |-> o, name |-> name, ch |-> c, seq |-> seq,
     open |-> TRUE,
     got |-> SelectSeq([i \in 1..Len(rtWrites) |-> i],
                       LAMBDA i : rtWrites[i] = [name |-> name, ch |-> c])]

addTap(o, name, c, seq) ==
    [owner |-> o, name |-> name, ch |-> c, seq |-> seq, open |-> TRUE, got |-> << >>]

\* forwardStream(f, name, t) for every pair of fs x ns
\* (mutant: only name-stdout gets a tap)
forwardStreamsStdout(fs, ns) ==
    /\ started' = [f \in Clients, n \in Names, c \in Channels |->
                     started[f, n, c]
                       + (IF n \in ns
                          THEN Cardinality({i \in 1..Len(fs) : fs[i] = f}) ELSE 0)]
    /\ rtTaps' = rtTaps \cup
                   {addTap(<<"forwarder", fs[i]>>, n, "stdout", started[fs[i], n, "stdout"] + 1) :
                      i \in 1..Len(fs), n \in ns}

\* forwardStream(f, name, t) for every pair of fs x ns: StartForward with a
\* fresh tap for name-stdout and for name-stderr
forwardStreams(fs, ns) ==
    /\ started' = [f \in Clients, n \in Names, c \in Channels |->
                     started[f, n, c]
                       + (IF n \in ns
                          THEN Cardinality({i \in 1..Len(fs) : fs[i] = f}) ELSE 0)]
    /\ rtTaps' = rtTaps \cup
                   {addTap(<<"forwarder", fs[i]>>, n, c, started[fs[i], n, c] + 1) :
                      i \in 1..Len(fs), n \in ns, c \in Channels}

\* a call that ends without a send goes on to a send all the same
returnPending(k, op, ret) ==
    /\ kPc' = [kPc EXCEPT ![k] = "defer"]
    /\ kOp' = [kOp EXCEPT ![k] = op]
    /\ kRet' = [kRet EXCEPT ![k] = ret]
    /\ kMark' = [kMark EXCEPT ![k] = [begin |-> Len(rtWrites), end |-> 0]]

\* a call ends without a send: it returns at once
returnNow(k, op, ret) ==
    /\ kPc' = [kPc EXCEPT ![k] = "done"]
    /\ kOp' = [kOp EXCEPT ![k] = op]
    /\ kRet' = [kRet EXCEPT ![k] = ret]
    /\ kMark' = [kMark EXCEPT ![k] = [begin |-> Len(rtWrites), end |-> Len(rtWrites)]]

\* a call leaves its section under lr.l with err == nil: its deferred send
\* comes next
returnBySend(k, op, ret) ==
    /\ kPc' = [kPc EXCEPT ![k] = "defer"]
    /\ kOp' = [kOp EXCEPT ![k] = op]
    /\ kRet' = [kRet EXCEPT ![k] = ret]
    /\ kMark' = [kMark EXCEPT ![k] = [begin |-> Len(rtWrites), end |-> 0]]

\* RouteLogCapturer, line 299: tapped, ok := lr.logStreams[name] (0: not ok)
\* (mutant: the name is never found)
lookupNothing(streams, name) == 0

lookupStream(streams, name) == streams[name]

\* RouteLogCapturer, lines 297-322: the section under lr.l
RouteLogCapturer(k, name) ==
    /\ kPc[k] = "idle"
    /\ LET op == [op |-> "RouteLogCapturer", name |-> name] IN
       IF lookupStream(logStreams, name) # 0
       THEN /\ returnBySend(k, op, [tapper |-> lookupStream(logStreams, name), err |-> "nil"])
            /\ UNCHANGED <<logStreams, tappers, sinks>>
       ELSE IF rtClosed
       THEN /\ returnNow(k, op, [tapper |-> 0, err |-> "closed router"])
            /\ UNCHANGED <<logStreams, tappers, sinks>>
       ELSE \E created \in BOOLEAN :
              IF created
              THEN /\ tappers' = tappers + 1
                   /\ sinks' = [sinks EXCEPT ![name].made = @ + 1]
                   /\ logStreams' = [logStreams EXCEPT ![name] = tappers + 1]
                   /\ returnBySend(k, op, [tapper |-> tappers + 1, err |-> "nil"])
              ELSE /\ returnNow(k, op, [tapper |-> 0, err |-> "capturer"])
                   /\ UNCHANGED <<logStreams, tappers, sinks>>
    /\ UNCHANGED <<forwards, rtClosed, coPc, coArg, coRefs, kRef, rtTaps, rtWrites,
                   started, stopped>>
    /\ UNCHANGED <<mxVars, logVars, srVars, syVars, hrVars, fpVars, bcVars, cfVars,
                   vnVars>>

\* AddForwarder, lines 364-370: the section under lr.l
AddForwarder(k) ==
    /\ kPc[k] = "idle"
    /\ LET op == [op |-> "AddForwarder", name |-> ""] IN
       IF rtClosed
       THEN returnNow(k, op, [tapper |-> 0, err |-> "router shut down"])
       ELSE returnBySend(k, op, [tapper |-> 0, err |-> "nil"])
    /\ UNCHANGED <<logStreams, forwards, rtClosed, tappers, sinks, coPc, coArg, coRefs,
                   kRef, rtTaps, rtWrites, started, stopped>>
    /\ UNCHANGED <<mxVars, logVars, srVars, syVars, hrVars, fpVars, bcVars, cfVars,
                   vnVars>>

\* AddCapturer, lines 336-349: under lr.l, two fresh taps of an existing
\* stream, each handed to a copy task
AddCapturer(k, name) ==
    /\ kPc[k] = "idle"
    /\ LET op == [op |-> "AddCapturer", name |-> name] IN
       IF logStreams[name] = 0
       THEN /\ returnNow(k, op, [tapper |-> 0, err |-> "no stream"])
            /\ UNCHANGED rtTaps
       ELSE /\ returnNow(k, op, [tapper |-> 0, err |-> "nil"])
            /\ rtTaps' = rtTaps \cup {addTap(<<"capturer", k>>, name, c, 1) : c \in Channels}
    /\ UNCHANGED <<logStreams, forwards, rtClosed, tappers, sinks, coPc, coArg, coRefs,
                   kRef, rtWrites, started, stopped>>
    /\ UNCHANGED <<mxVars, logVars, srVars, syVars, hrVars, fpVars, bcVars, cfVars,
                   vnVars>>

\* Shutdown, lines 375-383 (a second Shutdown would close a closed channel)
Shutdown(k) ==
    /\ kPc[k] = "idle"
    /\ ~rtClosed
    /\ rtClosed' = TRUE
    /\ returnNow(k, [op |-> "Shutdown", name |-> ""], [tapper |-> 0, err |-> "nil"])
    /\ UNCHANGED <<logStreams, forwards, tappers, sinks, coPc, coArg, coRefs,
                   kRef, rtTaps, rtWrites, started, stopped>>
    /\ UNCHANGED <<mxVars, logVars, srVars, syVars, hrVars, fpVars, bcVars, cfVars,
                   vnVars>>

\* the deferred send of RouteLogCapturer (line 293) and AddForwarder (line
\* 360), after lr.l was released: the channel field is read as it is now
DeferredSend(k) ==
    /\ kPc[k] = "defer"
    /\ kPc' = [kPc EXCEPT ![k] = "sending"]
    /\ kRef' = [kRef EXCEPT ![k] = ~rtClosed]
    /\ UNCHANGED <<logStreams, forwards, rtClosed, tappers, sinks, coPc, coArg, coRefs,
                   kOp, kRet, kMark, rtTaps, rtWrites, started, stopped>>
    /\ UNCHANGED <<mxVars, logVars, srVars, syVars, hrVars, fpVars, bcVars, cfVars,
                   vnVars>>

\* route, lines 249-250: the loop comes to the select and reads lr.forwardChan
\* and lr.streamChan
RouteSelect ==
    /\ coPc = "eval"
    /\ coPc' = "select"
    /\ coRefs' = ~rtClosed
    /\ UNCHANGED <<logStreams, forwards, rtClosed, tappers, sinks, coArg,
                   kPc, kOp, kRef, kRet, kMark, rtTaps, rtWrites, started, stopped>>
    /\ UNCHANGED <<mxVars, logVars, srVars, syVars, hrVars, fpVars, bcVars, cfVars,
                   vnVars>>

\* route, lines 251 and 261: the select receives what a client sends; the
\* client's send completes and its call returns
RouteReceive ==
    /\ coPc = "select"
    /\ coRefs
    /\ \E k \in Clients :
         /\ kPc[k] = "sending"
         /\ kRef[k]
         /\ coArg' = [op |-> kOp[k].op, name |-> IF kOp[k].op = "AddForwarder"
                                                  THEN k ELSE kOp[k].name]
         /\ kPc' = [kPc EXCEPT ![k] = "done"]
         /\ kMark' = [kMark EXCEPT ![k].end = Len(rtWrites)]
    /\ coPc' = "handle"
    /\ UNCHANGED <<logStreams, forwards, rtClosed, tappers, sinks, coRefs,
                   kOp, kRef, kRet, rtTaps, rtWrites, started, stopped>>
    /\ UNCHANGED <<mxVars, logVars, srVars, syVars, hrVars, fpVars, bcVars, cfVars,
                   vnVars>>

\* route, lines 252-260: a forwarder was added; under lr.l every stream is
\* forwarded to it and it is appended to lr.forwards
RouteForwarder ==
    /\ coPc = "handle"
    /\ coArg.op = "AddForwarder"
    /\ forwardStreams(<<coArg.name>>, streamNames)
    /\ forwards' = Append(forwards, coArg.name)
    /\ coPc' = "eval"
    /\ coArg' = noOp
    /\ UNCHANGED <<logStreams, rtClosed, tappers, sinks, coRefs,
                   kPc, kOp, kRef, kRet, kMark, rtWrites, stopped>>
    /\ UNCHANGED <<mxVars, logVars, srVars, syVars, hrVars, fpVars, bcVars, cfVars,
                   vnVars>>

\* route, lines 261-271: a stream was created; under lr.l it is forwarded to
\* every forwarder of lr.forwards
RouteStream ==
    /\ coPc = "handle"
    /\ coArg.op = "RouteLogCapturer"
    /\ IF logStreams[coArg.name] # 0
       THEN forwardStreams(forwards, {coArg.name})
       ELSE UNCHANGED <<started, rtTaps>>
    /\ coPc' = "eval"
    /\ coArg' = noOp
    /\ UNCHANGED <<logStreams, forwards, rtClosed, tappers, sinks, coRefs,
                   kPc, kOp, kRef, kRet, kMark, rtWrites, stopped>>
    /\ UNCHANGED <<mxVars, logVars, srVars, syVars, hrVars, fpVars, bcVars, cfVars,
                   vnVars>>

\* route, line 272: the select takes the closed closeChan
RouteClose ==
    /\ coPc = "select"
    /\ rtClosed
    /\ coPc' = "closing"
    /\ UNCHANGED <<logStreams, forwards, rtClosed, tappers, sinks, coArg, coRefs,
                   kPc, kOp, kRef, kRet, kMark, rtTaps, rtWrites, started, stopped>>
    /\ UNCHANGED <<mxVars, logVars, srVars, syVars, hrVars, fpVars, bcVars, cfVars,
                   vnVars>>

\* route, lines 273-283: under lr.l, StopForward of name-stdout and
\* name-stderr on every forwarder for every stream; then route returns
RouteStop ==
    /\ coPc = "closing"
    /\ stopped' = [f \in Clients, n \in Names, c \in Channels |->
                     stopped[f, n, c]
                       + (IF n \in streamNames
                          THEN Cardinality({i \in 1..Len(forwards) : forwards[i] = f})
                          ELSE 0)]
    /\ coPc' = "exited"
    /\ UNCHANGED <<logStreams, forwards, rtClosed, tappers, sinks, coArg, coRefs,
                   kPc, kOp, kRef, kRet, kMark, rtTaps, rtWrites, started>>
    /\ UNCHANGED <<mxVars, logVars, srVars, syVars, hrVars, fpVars, bcVars, cfVars,
                   vnVars>>

\* logTapper.Close, lines 156-171, by the holder of a tapper: every tap of the
\* stream is removed and its pipe closed, then the sink is closed
TapperClose(name) ==
    /\ logStreams[name] # 0
    /\ ~sinks[name].closed
    /\ rtTaps' = {IF t.name = name THEN [t EXCEPT !.open = FALSE] ELSE t : t \in rtTaps}
    /\ sinks' = [sinks EXCEPT ![name].closed = TRUE]
    /\ UNCHANGED <<logStreams, forwards, rtClosed, tappers, coPc, coArg, coRefs,
                   kPc, kOp, kRef, kRet, kMark, rtWrites, started, stopped>>
    /\ UNCHANGED <<mxVars, logVars, srVars, syVars, hrVars, fpVars, bcVars, cfVars,
                   vnVars>>

\* a Write on the stdout or stderr multi-writer of a stream that exists: every
\* open tap the multi-writer has is handed the write
RouterWrite(name, c) ==
    /\ logStreams[name] # 0
    /\ Len(rtWrites) < MaxRouted
    /\ rtWrites' = Append(rtWrites, [name |-> name, ch |-> c])
    /\ rtTaps' = {IF t.name = name /\ t.ch = c /\ t.open
                  THEN [t EXCEPT !.got = Append(@, Len(rtWrites) + 1)]
                  ELSE t : t \in rtTaps}
    /\ UNCHANGED <<logStreams, forwards, rtClosed, tappers, sinks, coPc, coArg, coRefs,
                   kPc, kOp, kRef, kRet, kMark, started, stopped>>
    /\ UNCHANGED <<mxVars, logVars, srVars, syVars, hrVars, fpVars, bcVars, cfVars,
                   vnVars>>

\* the calls of a client on a router that nobody shuts down
OpenClientNext(k) ==
    \/ \E name \in Names : RouteLogCapturer(k, name) \/ AddCapturer(k, name)
    \/ AddForwarder(k)
    \/ DeferredSend(k)

ClientNext(k) == OpenClientNext(k) \/ Shutdown(k)

\* route while closeChan is open
routeOpen ==
    \/ RouteSelect
    \/ RouteReceive
    \/ RouteForwarder
    \/ RouteStream

route ==
    \/ routeOpen
    \/ RouteClose
    \/ RouteStop

\* a router with its clients, Shutdown included; nothing is written
RouterNext ==
    \/ \E k \in Clients : ClientNext(k)
    \/ route
    \/ \E name \in Names : TapperClose(name)

\* a router that stays open, with its clients
OpenNext ==
    \/ \E k \in Clients : OpenClientNext(k)
    \/ routeOpen

\* a router that stays open, with its clients and with writes to its streams
ForwardNext ==
    \/ \E k \in Clients : OpenClientNext(k)
    \/ routeOpen
    \/ \E name \in Names, c \in Channels : RouterWrite(name, c)

(***************************************************************************)
(* What the router is expected to do                                        *)
(***************************************************************************)
\* the client tasks whose RouteLogCapturer call yielded a tapper
gotTapper == {k \in Clients : kOp[k].op = "RouteLogCapturer" /\ kRet[k].err = "nil"}

\* C15: RouteLogCapturer calls with the same name yield the same tapper, calls
\* with different names yield different tappers, and for each name the stream
\* and its sink are created at most once, exactly once when a call for the
\* name has yielded a tapper.
C15_IdempotentCreate ==
    /\ \A j, k \in gotTapper :
          /\ kRet[k].tapper # 0
          /\ (kOp[j].name = kOp[k].name) = (kRet[j].tapper = kRet[k].tapper)
    /\ \A n \in Names :
          /\ sinks[n].made <= 1
          /\ (sinks[n].made = 1) = (logStreams[n] # 0)
          /\ (\E k \in gotTapper : kOp[k].name = n) => sinks[n].made = 1
    /\ tappers = Cardinality(streamNames)

\* C15 witness: two calls for one name have returned the same tapper, a call
\* for the other name another one, and each sink was created once.
C15_Witness ==
    /\ \A k \in Clients : kPc[k] = "done"
    /\ gotTapper = Clients
    /\ kOp["k1"].name = "a" /\ kOp["k2"].name = "a" /\ kOp["k3"].name = "b"
    /\ kRet["k1"].tapper = kRet["k2"].tapper
    /\ kRet["k3"].tapper # kRet["k1"].tapper
    /\ \A n \in Names : sinks[n].made = 1

forwarderAdded ==
    {k \in Clients : kOp[k].op = "AddForwarder" /\ kPc[k] = "done" /\ kRet[k].err = "nil"}

\* write number id is held by a tap of forwarder f
deliveredTo(f, id) ==
    \E t \in rtTaps :
        /\ t.owner = <<"forwarder", f>>
        /\ [name |-> t.name, ch |-> t.ch] = rtWrites[id]
        /\ \E i \in 1..Len(t.got) : t.got[i] = id

C18_StartedOnce ==
    \A f \in Clients, n \in Names, c \in Channels : started[f, n, c] <= 1

\* the same when no two RouteLogCapturer calls name the same stream
C18_StartedOnceDistinctNames ==
    (\A j, k \in gotTapper : j # k => kOp[j].name # kOp[k].name) => C18_StartedOnce

\* StopForward was called with name-stdout and with name-stderr on every
\* forwarder of lr.forwards for every stream
allStopped ==
    \A i \in 1..Len(forwards), n \in streamNames, c \in Channels :
        stopped[forwards[i], n, c] >= 1

\* after Shutdown the coordinator calls StopForward for every forwarder and
\* stream and then exits
C19_EventuallyStopped ==
    rtClosed ~> (coPc = "exited" /\ allStopped)

\* C19: after Shutdown the coordinator eventually calls StopForward with
\* name-stdout and name-stderr on every registered forwarder for every stream
\* and then exits, and once closeChan is closed it receives no forwarder-added
\* or stream-created event any more.
C19_ShutdownStopsAll ==
    /\ C19_EventuallyStopped
    /\ [][ (coPc = "select" /\ coPc' = "handle") => ~rtClosed ]_vars

\* every tap of every stream is closed and every stream's sink is closed
allStreamsClosed ==
    /\ \A t \in rtTaps : ~t.open
    /\ \A n \in streamNames : sinks[n].closed

\* C20: once Shutdown has run and the coordinator has exited, every tap of
\* every stream of the router is removed and closed and every stream's sink
\* is closed.
C20_ShutdownClosesStreams ==
    (rtClosed /\ coPc = "exited") => allStreamsClosed

\* C34: a call of RouteLogCapturer or AddForwarder that has come to its
\* deferred send returns, whenever Shutdown is called.
C34_CallsReturn ==
    \A k \in Clients : (kPc[k] = "sending") ~> (kPc[k] = "done")

\* client f has added its forwarder: AddForwarder returned nil
addedForwarder(f) ==
    kPc[f] = "done" /\ kOp[f].op = "AddForwarder" /\ kRet[f].err = "nil"

\* a RouteLogCapturer call for stream n has returned the stream
routedStream(n) ==
    \E k \in Clients :
       /\ kPc[k] = "done"
       /\ kOp[k] = [op |-> "RouteLogCapturer", name |-> n]
       /\ kRet[k].err = "nil"

\* StartForward was called on f for both channels of stream n
forwardingStarted(f, n) == \A c \in Channels : started[f, n, c] >= 1

\* C35: on a router that is not shut down, once AddForwarder has returned for
\* a forwarder and RouteLogCapturer for a stream, StartForward is eventually
\* called on the forwarder for name-stdout and name-stderr of the stream.
C35_NoPairMissed ==
    \A f \in Clients, n \in Names :
       (addedForwarder(f) /\ routedStream(n)) ~> forwardingStarted(f, n)

\* one client has added its forwarder, another has routed stream a, and the
\* forwarding of a to the forwarder has started
C35_Witness ==
    /\ addedForwarder("k1")
    /\ routedStream("a")
    /\ forwardingStarted("k1", "a")

\* the forwarder of client k is in no table of the router and was never started
neverRegistered(k) ==
    /\ \A i \in 1..Len(forwards) : forwards[i] # k
    /\ coArg # [op |-> "AddForwarder", name |-> k]
    /\ \A n \in Names, c \in Channels : started[k, n, c] = 0

\* C36: once Shutdown has returned, AddForwarder returns 'router shut down'
\* and its forwarder is never registered or started, and RouteLogCapturer for
\* a name that has no stream returns 'cannot create log capturer on closed
\* router' and creates no stream and no sink.
C36_ClosedRouterErrors ==
    /\ [][\A k \in Clients :
            /\ (AddForwarder(k) /\ rtClosed) =>
                  /\ kPc'[k] = "done"
                  /\ kRet'[k].err = "router shut down"
            /\ \A n \in Names :
                  (RouteLogCapturer(k, n) /\ rtClosed /\ logStreams[n] = 0) =>
                     /\ kPc'[k] = "done"
                     /\ kRet'[k] = [tapper |-> 0, err |-> "closed router"]
                     /\ UNCHANGED <<logStreams, tappers, sinks>>]_vars
    /\ [](\A k \in Clients :
            (kOp[k].op = "AddForwarder" /\ kRet[k].err = "router shut down") =>
               neverRegistered(k))
    /\ [](\A n \in Names : rtClosed /\ logStreams[n] = 0 => sinks[n].made = 0)

\* after a Shutdown an AddForwarder was refused and a RouteLogCapturer for a
\* name without a stream was refused
C36_Witness ==
    /\ rtClosed
    /\ \E k \in Clients :
          /\ kPc[k] = "done"
          /\ kOp[k].op = "AddForwarder"
          /\ kRet[k].err = "router shut down"
    /\ \E k \in Clients :
          /\ kPc[k] = "done"
          /\ kOp[k].op = "RouteLogCapturer"
          /\ kRet[k].err = "closed router"
          /\ logStreams[kOp[k].name] = 0

(***************************************************************************)
(* Adding and removing secondaries of the multi-writer                      *)
(***************************************************************************)
\* the bytes of call id that secondary g holds, in the order it holds them
runOf(g, id) == SelectSeq(plainGot[g], LAMBDA x : x[1] = id)

\* secondary g holds of every call at most one run, a prefix of its bytes
heldOnce(g) ==
    \A id \in 1..Len(calls) :
       /\ isPrefix(runOf(g, id), payload(id))
       /\ \A i, j \in bytesOf(plainGot[g], id) :
             \A k \in i..j : k \in bytesOf(plainGot[g], id)

\* the step hands bytes to secondary g: it is the task holding writersLock,
\* g is in the set and not yet visited, and the bytes are the start of the
\* task's b, put after what g holds
handedAsMember(g) ==
    plainGot'[g] # plainGot[g] =>
       \E w \in Writers :
          /\ writersLock = w
          /\ g \in writers
          /\ g \in wtodo[w] /\ g \notin wtodo'[w]
          /\ \E n \in 1..Len(payload(wcur[w])) :
                plainGot'[g] = plainGot[g] \o SubSeq(payload(wcur[w]), 1, n)

\* the step is the return of a Write with nil: every plain secondary in the
\* set ends with the whole of b
returnedToMembers ==
    \A w \in Writers :
       (wpc[w] = "ranging" /\ wpc'[w] = "idle") =>
          \A g \in writers \cap Plain :
             /\ Len(plainGot[g]) >= Len(payload(wcur[w]))
             /\ SubSeq(plainGot[g], Len(plainGot[g]) - Len(payload(wcur[w])) + 1,
                       Len(plainGot[g])) = payload(wcur[w])

C33_CloseReturns ==
    (tapState["t1"] = "closing") ~> (tapState["t1"] = "closed")

(***************************************************************************)
(* multiResolver: the custom images and the dind setting of a suite, merged *)
(* from the stack of resolvers.  CustomImages walks the entries of the      *)
(* resolvers in stack order, so the stack is the one list of their entries. *)
(***************************************************************************)
\* the longest stack of custom images the bounded inputs hold
MaxStack == 3

\* the entries the bounded inputs are drawn from: two targets, three
\* source and version pairs (two differing in the version only), default-only
\* or not
StackImages ==
    {[Source |-> sv[1], Target |-> t, Version |-> sv[2], DefaultOnly |-> d] :
        sv \in {<<"a", "1">>, <<"a", "2">>, <<"b", "1">>},
        t \in {"t1", "t2"}, d \in BOOLEAN}

\* a comparison that looks at the source only
sameImageSource(c, e) == c.Source = e.Source

\* line 453: the entry has the source and the version of the existing one
sameImage(c, e) == c.Source = e.Source /\ c.Version = e.Version

RECURSIVE scanImages(_, _, _)
\* lines 447-460: the loop over the existing images from position i on, for
\* the entry c; list is customImages, has is hasImage
scanImages(list, c, i) ==
    IF i > Len(list) THEN [list |-> list, has |-> FALSE]
    ELSE IF c.Target = list[i].Target
         THEN LET replaced == IF list[i].DefaultOnly
                              THEN [list EXCEPT ![i] = c] ELSE list
                  has == list[i].DefaultOnly \/ c.DefaultOnly \/ sameImage(c, list[i])
              IN IF has THEN [list |-> replaced, has |-> TRUE]
                 ELSE scanImages(list, c, i + 1)
         ELSE scanImages(list, c, i + 1)

\* lines 446-463: the entry c is merged into customImages
mergeImage(list, c) ==
    LET r == scanImages(list, c, 1)
    IN IF r.has THEN r.list ELSE Append(r.list, c)

\* lines 466-471: the entries whose target a default-only entry declared
filterTargets(list, declared) == SelectSeq(list, LAMBDA e : e.Target \in declared)

\* lines 403-411: multiResolver.Dind, true if a resolver says so or the
\* merged images are not empty
Dind(flagDind, suiteDind, defaultDind, nImages) ==
    flagDind \/ suiteDind \/ defaultDind \/ nImages > 0

ResolveInit ==
    /\ crStack \in SeqsUpTo(StackImages, MaxStack)
    /\ crIdx = 1
    /\ crImages = << >>
    /\ crTargets = {}
    /\ crOut = << >>
    /\ crSuite = [dind |-> FALSE, images |-> 0]
    /\ crDind = FALSE
    /\ crPc = "merge"

\* no suite is being resolved
ResolveIdle ==
    /\ crStack = << >>
    /\ crIdx = 1
    /\ crImages = << >>
    /\ crTargets = {}
    /\ crOut = << >>
    /\ crSuite = [dind |-> FALSE, images |-> 0]
    /\ crDind = FALSE
    /\ crPc = "idle"

\* lines 441-464: the next entry of the stack
ResolveEntry ==
    /\ crPc = "merge"
    /\ crIdx <= Len(crStack)
    /\ LET c == crStack[crIdx] IN
         /\ crTargets' = IF c.DefaultOnly THEN crTargets \cup {c.Target} ELSE crTargets
         /\ crImages' = mergeImage(crImages, c)
    /\ crIdx' = crIdx + 1
    /\ UNCHANGED <<crStack, crOut, crSuite, crDind, crPc>>
    /\ UNCHANGED <<mxVars, logVars, srVars, syVars, hrVars, fpVars, bcVars, rtVars,
                   nmVars, eiVars, vnVars>>

\* lines 466-472: every entry is merged, CustomImages returns the filtered list
ResolveFilter ==
    /\ crPc = "merge"
    /\ crIdx > Len(crStack)
    /\ crOut' = filterTargets(crImages, crTargets)
    /\ crPc' = "dind"
    /\ UNCHANGED <<crStack, crIdx, crImages, crTargets, crSuite, crDind>>
    /\ UNCHANGED <<mxVars, logVars, srVars, syVars, hrVars, fpVars, bcVars, rtVars,
                   nmVars, eiVars, vnVars>>

\* runnerConfiguration, line 223: DockerInDocker of the suite, whose dind
\* setting and images are any; the flag resolver and the default resolver
\* return false
ResolveDind ==
    /\ crPc = "dind"
    /\ \E d \in BOOLEAN, n \in 0..1 :
         /\ crSuite' = [dind |-> d, images |-> n]
         /\ crDind' = Dind(FALSE, d, FALSE, n)
    /\ crPc' = "done"
    /\ UNCHANGED <<crStack, crIdx, crImages, crTargets, crOut>>
    /\ UNCHANGED <<mxVars, logVars, srVars, syVars, hrVars, fpVars, bcVars, rtVars,
                   nmVars, eiVars, vnVars>>

ResolveNext ==
    \/ ResolveEntry
    \/ ResolveFilter
    \/ ResolveDind

\* CustomImages has returned
resolved == crPc \in {"dind", "done"}

\* the targets a default-only entry of the stack declares
declaredTargets == {e.Target : e \in {x \in Range(crStack) : x.DefaultOnly}}

\* the entries of the stack that are not default-only
nonDefaults == {e \in Range(crStack) : ~e.DefaultOnly}

\* the default-only entry does not survive a non-default entry of its target
defaultsReplaced ==
    \A i \in 1..Len(crOut) :
       crOut[i].DefaultOnly => \A e \in nonDefaults : e.Target # crOut[i].Target

\* no entry is in the result twice
collapsed == \A i, j \in 1..Len(crOut) : crOut[i] = crOut[j] => i = j

\* C31: in the list CustomImages returns, no default-only entry stands for a
\* target that a non-default entry of the stack has, no entry stands twice,
\* every non-default entry whose target a default-only entry of the stack
\* declares is kept (two of one target that differ in source or version are
\* two entries), a declared target without a non-default entry has one
\* default-only entry, and no entry has a target that is not declared.
C31_CustomImagesMerged ==
    resolved =>
       /\ defaultsReplaced
       /\ collapsed
       /\ \A e \in nonDefaults : e.Target \in declaredTargets => e \in Range(crOut)
       /\ \A t \in declaredTargets :
            (\A e \in nonDefaults : e.Target # t) =>
               Cardinality({i \in 1..Len(crOut) : crOut[i].Target = t}) = 1
       /\ \A i \in 1..Len(crOut) :
            /\ crOut[i] \in Range(crStack)
            /\ crOut[i].Target \in declaredTargets

\* C31 as stated: every non-default entry is kept, whatever its target
C31_NonDefaultsKept ==
    resolved =>
       /\ defaultsReplaced
       /\ collapsed
       /\ \A e \in nonDefaults : e \in Range(crOut)

\* a default-only entry, then two non-default entries of its target that
\* differ in the version only: the two are the result
C31_Witness ==
    /\ resolved
    /\ Len(crStack) = 3
    /\ crStack[1].DefaultOnly
    /\ ~crStack[2].DefaultOnly /\ ~crStack[3].DefaultOnly
    /\ crStack[2].Target = crStack[1].Target
    /\ crStack[3].Target = crStack[1].Target
    /\ crStack[2].Source = crStack[3].Source
    /\ crStack[2].Version # crStack[3].Version
    /\ crOut = <<crStack[2], crStack[3]>>

\* C39: whenever the custom images resolved for a suite are not empty, the
\* suite's docker-in-docker setting resolves to true.
C39_CustomImagesSetDind ==
    (crPc = "done" /\ crOut # << >>) => crDind

(***************************************************************************)
(* parseSuites and runnerConfiguration: the names of the suites and of      *)
(* their instances.  A name is the tuple of its characters.                 *)
(***************************************************************************)
\* the most suites the bounded inputs declare
MaxSuites == 3

\* the most matrix rows the custom images of a bounded suite expand to
MaxRows == 2

\* the names the bounded suites declare
SuiteNames == {<<"a">>, <<"b">>, <<"a", "-", "1">>}

\* %d of a number below ten
Digit(n) == <<"0", "1", "2", "3", "4", "5", "6", "7", "8", "9">>[n + 1]

\* fmt.Sprintf("%s-%d", name, n)
nameDashN(name, n) == name \o <<"-", Digit(n)>>

RECURSIVE renamed(_, _, _)
\* parseSuites, lines 660-664: the first of name-i, name-(i+1), ... no
\* configuration has
renamed(name, i, taken) ==
    IF nameDashN(name, i) \in taken THEN renamed(name, i + 1, taken)
    ELSE nameDashN(name, i)

\* parseSuites, lines 658-664: the name a suite is registered under
resolvedName(name, taken) ==
    IF name \in taken THEN renamed(name, 1, taken) ELSE name

\* runnerConfiguration, lines 240-262: the names of the instances of a suite
\* whose image matrix has the given number of rows
instanceNames(name, rows) ==
    IF rows = 0 THEN <<name>>
    ELSE IF rows > 1 THEN [i \in 1..rows |-> nameDashN(name, i)]
    ELSE <<name>>

\* runner.imageName, line 140: the tag of the image of an instance
imageName(name) ==
    <<"g", "o", "l", "e", "m", "-">> \o name \o <<":", "l", "a", "t", "e", "s", "t">>

NamesInit ==
    /\ nmDeclared \in (SeqsUpTo([name : SuiteNames, rows : 0..MaxRows], MaxSuites)
                          \ {<< >>})
    /\ nmIdx = 1
    /\ nmConfigs = {}
    /\ nmTodo = {}
    /\ nmInstances = << >>
    /\ nmPc = "parse"

\* no configuration is being read
NamesIdle ==
    /\ nmDeclared = << >>
    /\ nmIdx = 1
    /\ nmConfigs = {}
    /\ nmTodo = {}
    /\ nmInstances = << >>
    /\ nmPc = "idle"

\* parseSuites, lines 651-666: the next declared suite gets its name
ParseSuite ==
    /\ nmPc = "parse"
    /\ nmIdx <= Len(nmDeclared)
    /\ LET sc == nmDeclared[nmIdx]
           taken == {c.name : c \in nmConfigs}
       IN nmConfigs' = nmConfigs \cup
                         {[name |-> resolvedName(sc.name, taken), rows |-> sc.rows]}
    /\ nmIdx' = nmIdx + 1
    /\ UNCHANGED <<nmDeclared, nmTodo, nmInstances, nmPc>>
    /\ UNCHANGED <<mxVars, logVars, srVars, syVars, hrVars, fpVars, bcVars, rtVars,
                   crVars, eiVars, vnVars>>

\* parseSuites returns the configurations, runnerConfiguration starts its loop
ParseReturn ==
    /\ nmPc = "parse"
    /\ nmIdx > Len(nmDeclared)
    /\ nmTodo' = nmConfigs
    /\ nmPc' = "configure"
    /\ UNCHANGED <<nmDeclared, nmIdx, nmConfigs, nmInstances>>
    /\ UNCHANGED <<mxVars, logVars, srVars, syVars, hrVars, fpVars, bcVars, rtVars,
                   crVars, eiVars, vnVars>>

\* runnerConfiguration, lines 216-265: one round of the loop over the map of
\* the suites, in the order the map gives
ConfigureSuite ==
    /\ nmPc = "configure"
    /\ \E c \in nmTodo :
         /\ nmInstances' = nmInstances \o instanceNames(c.name, c.rows)
         /\ nmTodo' = nmTodo \ {c}
         /\ nmPc' = IF nmTodo' = {} THEN "done" ELSE "configure"
    /\ UNCHANGED <<nmDeclared, nmIdx, nmConfigs>>
    /\ UNCHANGED <<mxVars, logVars, srVars, syVars, hrVars, fpVars, bcVars, rtVars,
                   crVars, eiVars, vnVars>>

NamesNext ==
    \/ ParseSuite
    \/ ParseReturn
    \/ ConfigureSuite

\* C38: the instances of all suites of a run have pairwise distinct names,
\* and so have their containers and their images.
C38_InstanceNamesDistinct ==
    nmPc = "done" =>
       \A i, j \in 1..Len(nmInstances) :
          i # j => /\ nmInstances[i] # nmInstances[j]
                   /\ contName(nmInstances[i]) # contName(nmInstances[j])
                   /\ imageName(nmInstances[i]) # imageName(nmInstances[j])

(***************************************************************************)
(* versionutil: the order of Docker versions.  A tag and a commit are the   *)
(* tuples of their characters.                                              *)
(***************************************************************************)
\* the characters of tags and commits, in the order of their bytes
Alphabet ==
    <<"0", "1", "2", "3", "4", "5", "6", "7", "8", "9",
      "a", "b", "c", "d", "e", "f", "g", "h", "i", "j", "k", "l", "m",
      "n", "o", "p", "q", "r", "s", "t", "u", "v", "w", "x", "y", "z">>

\* the byte order of a character
Ord(c) == CHOOSE i \in 1..Len(Alphabet) : Alphabet[i] = c

RECURSIVE strLess(_, _)
\* Go's < on strings: the order of the bytes, a prefix first
strLess(x, y) ==
    IF y = << >> THEN FALSE
    ELSE IF x = << >> THEN TRUE
    ELSE IF Head(x) # Head(y) THEN Ord(Head(x)) < Ord(Head(y))
    ELSE strLess(Tail(x), Tail(y))

\* strings.HasPrefix
HasPrefix(x, prefix) ==
    /\ Len(x) >= Len(prefix)
    /\ SubSeq(x, 1, Len(prefix)) = prefix

\* the tag of a version: none, dev, two release candidates and two others
Tags == {<< >>, <<"d", "e", "v">>, <<"r", "c", "1">>, <<"r", "c", "2">>,
         <<"c", "e">>, <<"t", "p">>}

\* the versions the bounded inputs are drawn from
Versions ==
    [VersionNumber : {<<1, 9, 1>>, <<1, 10, 0>>, <<1, 10, 1>>},
     Tag : Tags,
     Commit : {<< >>, <<"a", "1">>}]

\* Version.LessThan, lines 83-116
LessThan(v, v2) ==
    IF v.VersionNumber[1] # v2.VersionNumber[1]
    THEN v.VersionNumber[1] < v2.VersionNumber[1]
    ELSE IF v.VersionNumber[2] # v2.VersionNumber[2]
    THEN v.VersionNumber[2] < v2.VersionNumber[2]
    ELSE IF v.VersionNumber[3] # v2.VersionNumber[3]
    THEN v.VersionNumber[3] < v2.VersionNumber[3]
    ELSE IF v.Tag # v2.Tag
    THEN IF v.Tag = << >> THEN FALSE
         ELSE IF v2.Tag = << >> THEN TRUE
         ELSE IF v.Tag = <<"d", "e", "v">> THEN TRUE
         ELSE IF HasPrefix(v.Tag, <<"r", "c">>) /\ ~HasPrefix(v2.Tag, <<"r", "c">>)
         THEN FALSE
         ELSE strLess(v.Tag, v2.Tag)
    ELSE strLess(v.Commit, v2.Commit)

VersionInit ==
    /\ vnA \in Versions
    /\ vnB \in Versions
    /\ vnLess = [ab |-> FALSE, ba |-> FALSE]
    /\ vnPc = "compare"

\* no versions are compared
VersionIdle ==
    /\ vnA = [VersionNumber |-> <<0, 0, 0>>, Tag |-> << >>, Commit |-> << >>]
    /\ vnB = [VersionNumber |-> <<0, 0, 0>>, Tag |-> << >>, Commit |-> << >>]
    /\ vnLess = [ab |-> FALSE, ba |-> FALSE]
    /\ vnPc = "idle"

\* the two versions are compared in both directions
CompareVersions ==
    /\ vnPc = "compare"
    /\ vnLess' = [ab |-> LessThan(vnA, vnB), ba |-> LessThan(vnB, vnA)]
    /\ vnPc' = "done"
    /\ UNCHANGED <<vnA, vnB>>
    /\ UNCHANGED <<mxVars, logVars, srVars, syVars, hrVars, fpVars, bcVars, rtVars,
                   cfVars>>

VersionNext == CompareVersions

\* C40: of two versions of one number with different tags exactly one is less
\* than the other.
C40_StrictTotalOnTags ==
    (/\ vnPc = "done"
     /\ vnA.VersionNumber = vnB.VersionNumber
     /\ vnA.Tag # vnB.Tag) => (vnLess.ab # vnLess.ba)

(***************************************************************************)
(* ensureImage, and BuildBaseImage up to the fingerprint: every reference   *)
(* of the configuration is made to resolve in the engine, by a pull if it   *)
(* does not.                                                                *)
(***************************************************************************)
\* the most references a bounded configuration has: the base, extra images
\* and the sources of custom images
MaxRefs == 2

\* the references of the bounded configurations
Refs == {"r1", "r2"}

\* what reference.Parse makes of a reference
RefKinds == {"tagged", "untagged", "invalid"}

\* info.ID of the image a reference resolves to
imageID(ref) == <<"sha256:", ref>>

\* the empty string returned as id
noID == << >>

\* ensureImage returns the id and no error
returnID(id) == [id |-> id, err |-> FALSE]

\* ensureImage returns "" and the error
returnErr == [id |-> noID, err |-> TRUE]

\* lines 436-439: the image cannot be inspected after the pull
returnUninspected == [id |-> noID, err |-> FALSE]

EnsureInit ==
    /\ eiEngine \in SUBSET Refs
    /\ eiTodo \in (SeqsUpTo([ref : Refs, kind : RefKinds], MaxRefs) \ {<< >>})
    /\ eiIdx = 1
    /\ eiRet = returnErr
    /\ eiIds = << >>
    /\ eiPc = "inspect"

\* no image is being built
EnsureIdle ==
    /\ eiEngine = {}
    /\ eiTodo = << >>
    /\ eiIdx = 1
    /\ eiRet = returnErr
    /\ eiIds = << >>
    /\ eiPc = "idle"

\* the reference ensureImage was called with
ensured == eiTodo[eiIdx]

\* ensureImage, lines 388-410: the image is inspected; found, it is returned;
\* on another error than not-found, and on a reference that is not named and
\* tagged, the error is returned
EnsureInspect ==
    /\ eiPc = "inspect"
    /\ \/ /\ ensured.ref \in eiEngine
          /\ eiRet' = returnID(imageID(ensured.ref))
          /\ eiPc' = "returned"
       \/ /\ eiRet' = returnErr
          /\ eiPc' = "returned"
       \/ /\ ensured.ref \notin eiEngine
          /\ IF ensured.kind = "tagged"
             THEN eiPc' = "pull" /\ UNCHANGED eiRet
             ELSE eiPc' = "returned" /\ eiRet' = returnErr
    /\ UNCHANGED <<eiEngine, eiTodo, eiIdx, eiIds>>
    /\ UNCHANGED <<mxVars, logVars, srVars, syVars, hrVars, fpVars, bcVars, rtVars,
                   crVars, nmVars, vnVars>>

\* ensureImage, lines 412-427: ImagePull and the display of its stream; the
\* pull stores the image, or the call or the stream ends with an error
EnsurePull ==
    /\ eiPc = "pull"
    /\ \/ /\ eiEngine' = eiEngine \cup {ensured.ref}
          /\ eiPc' = "reinspect"
          /\ UNCHANGED eiRet
       \/ /\ eiRet' = returnErr
          /\ eiPc' = "returned"
          /\ UNCHANGED eiEngine
    /\ UNCHANGED <<eiTodo, eiIdx, eiIds>>
    /\ UNCHANGED <<mxVars, logVars, srVars, syVars, hrVars, fpVars, bcVars, rtVars,
                   crVars, nmVars, vnVars>>

\* ensureImage, lines 435-441: the image is inspected after the pull
EnsureReinspect ==
    /\ eiPc = "reinspect"
    /\ \/ /\ ensured.ref \in eiEngine
          /\ eiRet' = returnID(imageID(ensured.ref))
       \/ eiRet' = returnUninspected
    /\ eiPc' = "returned"
    /\ UNCHANGED <<eiEngine, eiTodo, eiIdx, eiIds>>
    /\ UNCHANGED <<mxVars, logVars, srVars, syVars, hrVars, fpVars, bcVars, rtVars,
                   crVars, nmVars, vnVars>>

\* BuildBaseImage, lines 592-619: on an error the build fails; else the id is
\* kept and the next reference is ensured, or the fingerprint is computed
EnsureReturned ==
    /\ eiPc = "returned"
    /\ IF eiRet.err
       THEN eiPc' = "failed" /\ UNCHANGED <<eiIdx, eiIds>>
       ELSE /\ eiIds' = Append(eiIds, eiRet.id)
            /\ IF eiIdx < Len(eiTodo)
               THEN eiIdx' = eiIdx + 1 /\ eiPc' = "inspect"
               ELSE eiPc' = "hash" /\ UNCHANGED eiIdx
    /\ UNCHANGED <<eiEngine, eiTodo, eiRet>>
    /\ UNCHANGED <<mxVars, logVars, srVars, syVars, hrVars, fpVars, bcVars, rtVars,
                   crVars, nmVars, vnVars>>

EnsureNext ==
    \/ EnsureInspect
    \/ EnsurePull
    \/ EnsureReinspect
    \/ EnsureReturned

\* C37: an ensureImage that returns no error returns the id of the image of
\* its reference, never the empty id, and BuildBaseImage computes the
\* fingerprint from ids none of which is empty.
C37_EnsureReturnsImage ==
    /\ (eiPc = "returned" /\ ~eiRet.err) =>
          /\ eiRet.id = imageID(ensured.ref)
          /\ eiRet.id # noID
          /\ ensured.ref \in eiEngine
    /\ eiPc = "hash" => \A i \in 1..Len(eiIds) : eiIds[i] # noID

(***************************************************************************)
(* Specifications                                                          *)
(***************************************************************************)
\* the matrix expansion of every bounded input list
InitMatrix == MatrixInit /\ LogIdle /\ SuiteIdle /\ SyncIdle /\ HostIdle /\ FingerprintIdle /\ BuildIdle /\ RouterIdle
    /\ ResolveIdle /\ NamesIdle /\ VersionIdle /\ EnsureIdle

SpecMatrix == InitMatrix /\ [][MatrixNext]_vars

\* one stream written by two tasks at once
InitLog == LogInit /\ wTasks = Writers /\ MatrixIdle /\ SuiteIdle /\ SyncIdle /\ HostIdle /\ FingerprintIdle /\ BuildIdle /\ RouterIdle
    /\ ResolveIdle /\ NamesIdle /\ VersionIdle /\ EnsureIdle

SpecLog == InitLog /\ [][LogNext]_vars

\* the same with every task scheduled again and again: a writing task takes
\* its next step when it can, addTap runs to its end, and a reader that has not
\* stopped takes what is in the pipe
SpecLogFair ==
    /\ InitLog
    /\ [][LogNext]_vars
    /\ \A w \in Writers : WF_vars(WriteNext(w) \/ WritePlain(w))
    /\ WF_vars(AddTapRegister("t1"))
    /\ WF_vars(TapReadData("t1"))

\* the same with the task that called Close scheduled as well: RemoveWriter
\* takes writersLock when it is free
SpecCloseFair ==
    /\ InitLog
    /\ [][LogNext]_vars
    /\ \A w \in Writers : WF_vars(WriteNext(w) \/ WritePlain(w))
    /\ WF_vars(AddTapRegister("t1"))
    /\ WF_vars(TapReadData("t1"))
    /\ SF_vars(TapCloseRemove("t1"))

\* one stream written by one task, one Write after the other
InitTapper == LogInit /\ wTasks = {"w1"} /\ MatrixIdle /\ SuiteIdle /\ SyncIdle /\ HostIdle /\ FingerprintIdle /\ BuildIdle /\ RouterIdle
    /\ ResolveIdle /\ NamesIdle /\ VersionIdle /\ EnsureIdle

SpecTapper == InitTapper /\ [][TapperNext]_vars

\* one task that writes while a plain secondary is added and removed and a
\* tap is added, read and closed
SpecSecondary == InitTapper /\ [][LogNext]_vars

\* the suite runner process, from Setup to exit
InitSuite == SuiteInit /\ MatrixIdle /\ LogIdle /\ SyncIdle /\ HostIdle /\ FingerprintIdle /\ BuildIdle /\ RouterIdle
    /\ ResolveIdle /\ NamesIdle /\ VersionIdle /\ EnsureIdle

SpecSuite == InitSuite /\ [][SuiteNext]_vars

\* StartDaemon runs in the one task of runnerMain: a poll that has returned is
\* followed by the sleep and the next poll, or by the end of the loop
SpecSuiteFair == InitSuite /\ [][SuiteNext]_vars /\ WF_vars(PollDaemon)

\* one call of syncImages
InitSync == SyncInit /\ MatrixIdle /\ LogIdle /\ SuiteIdle /\ HostIdle /\ FingerprintIdle /\ BuildIdle /\ RouterIdle
    /\ ResolveIdle /\ NamesIdle /\ VersionIdle /\ EnsureIdle

SpecSync == InitSync /\ [][SyncNext]_vars

\* one call of the host runner's Run
InitHost == HostInit /\ MatrixIdle /\ LogIdle /\ SuiteIdle /\ SyncIdle /\ FingerprintIdle /\ BuildIdle /\ RouterIdle
    /\ ResolveIdle /\ NamesIdle /\ VersionIdle /\ EnsureIdle

SpecHost == InitHost /\ [][HostNext]_vars

\* the configurations of a base image and the edits of one
InitFingerprint == FingerprintInit /\ MatrixIdle /\ LogIdle /\ SuiteIdle /\ SyncIdle /\ HostIdle /\ BuildIdle /\ RouterIdle
    /\ ResolveIdle /\ NamesIdle /\ VersionIdle /\ EnsureIdle

SpecFingerprint == InitFingerprint /\ [][FingerprintNext]_vars

\* two builds in succession of one base image
InitBuild == BuildInit /\ MatrixIdle /\ LogIdle /\ SuiteIdle /\ SyncIdle /\ HostIdle /\ RouterIdle
    /\ ResolveIdle /\ NamesIdle /\ VersionIdle /\ EnsureIdle

SpecBuild == InitBuild /\ [][BuildNext]_vars

InitRouter == RouterInit(Clients) /\ MatrixIdle /\ LogIdle /\ SuiteIdle /\ SyncIdle /\ HostIdle /\ FingerprintIdle /\ BuildIdle
    /\ ResolveIdle /\ NamesIdle /\ VersionIdle /\ EnsureIdle

SpecRouter == InitRouter /\ [][RouterNext]_vars

InitForward == RouterInit({"k1", "k2"}) /\ MatrixIdle /\ LogIdle /\ SuiteIdle /\ SyncIdle /\ HostIdle /\ FingerprintIdle /\ BuildIdle
    /\ ResolveIdle /\ NamesIdle /\ VersionIdle /\ EnsureIdle

SpecForward == InitForward /\ [][ForwardNext]_vars

\* a router that stays open, with three clients and no writes, its coordinator
\* task scheduled again and again
SpecOpenFair == InitRouter /\ [][OpenNext]_vars /\ WF_vars(routeOpen)

\* the router with its coordinator task scheduled again and again
SpecRouterFair == InitRouter /\ [][RouterNext]_vars /\ WF_vars(route)

\* the custom images and the dind setting of one suite, for every bounded stack
InitResolve == ResolveInit /\ NamesIdle /\ VersionIdle /\ MatrixIdle /\ LogIdle /\ SuiteIdle
    /\ SyncIdle /\ HostIdle /\ FingerprintIdle /\ BuildIdle /\ RouterIdle /\ EnsureIdle

SpecResolve == InitResolve /\ [][ResolveNext]_vars

\* the suites of one run, for every bounded list of declared suites
InitNames == NamesInit /\ ResolveIdle /\ VersionIdle /\ MatrixIdle /\ LogIdle /\ SuiteIdle
    /\ SyncIdle /\ HostIdle /\ FingerprintIdle /\ BuildIdle /\ RouterIdle /\ EnsureIdle

SpecNames == InitNames /\ [][NamesNext]_vars

\* one comparison of two versions, for every bounded pair
InitVersion == VersionInit /\ ResolveIdle /\ NamesIdle /\ MatrixIdle /\ LogIdle /\ SuiteIdle
    /\ SyncIdle /\ HostIdle /\ FingerprintIdle /\ BuildIdle /\ RouterIdle /\ EnsureIdle

SpecVersion == InitVersion /\ [][VersionNext]_vars

\* the references of one base image, for every bounded configuration and engine
InitEnsure == EnsureInit /\ ResolveIdle /\ NamesIdle /\ VersionIdle /\ MatrixIdle /\ LogIdle
    /\ SuiteIdle /\ SyncIdle /\ HostIdle /\ FingerprintIdle /\ BuildIdle /\ RouterIdle

SpecEnsure == InitEnsure /\ [][EnsureNext]_vars

====
